---- MODULE Spec2Model ----
(***************************************************************************)
(* Model of the dimension-scaling resolver (expansion_utils.py) and of the *)
(* index-mapping abstraction (wave_types.py) of the wave kernel compiler.  *)
(*                                                                         *)
(* Python dictionaries are functions whose DOMAIN is the key set; an       *)
(* Optional value is the empty tuple (None) or a one-element tuple.        *)
(***************************************************************************)
EXTENDS Integers, Sequences, FiniteSets, TLC

VARIABLES
    constraints, node, subs, scaling,   \* a call of get_dim_scaling
    objects, call,                      \* the IndexMapping instances, the last call
    graph, leaf_nodes, queue, pc,       \* the graph under cleanup, the worklist
    expansion_context,                  \* the expansion memo
    graph_passes, pass_times,           \* the pass pipeline, the passes applied
    launchable, trace                   \* the LaunchableWave, its captured trace

scalingVars == <<constraints, node, subs, scaling>>
mappingVars == <<objects, call>>
cleanupVars == <<graph, leaf_nodes, queue, pc>>
compileVars == <<graph_passes, pass_times, launchable, trace>>
passVars == <<expansion_context, graph_passes, pass_times, launchable, trace>>
vars == <<constraints, node, subs, scaling, objects, call, graph, leaf_nodes, queue, pc,
          expansion_context, graph_passes, pass_times, launchable, trace>>

(***************************************************************************)
(* Bounds of the explored inputs.                                          *)
(***************************************************************************)
MaxConstraints == 2
MaxTile == 4
MaxVec == 2
MaxExtent == 3
MaxIterators == 2
MaxObjects == 3

Dims == {"M", "K"}

EmptyMap == [d \in {} |-> 0]
Put(m, k, v) == [x \in DOMAIN m \cup {k} |-> IF x = k THEN v ELSE m[x]]

(***************************************************************************)
(* Constraints (the fields get_dim_scaling reads).                         *)
(***************************************************************************)
HardwareConstraint(wpb) ==
    [kind |-> "Hardware", dim |-> "", tile_size |-> "", workgroup_dim |-> 0,
     waves_per_block |-> wpb]
WorkgroupConstraint(d, t, w) ==
    [kind |-> "Workgroup", dim |-> d, tile_size |-> t, workgroup_dim |-> w,
     waves_per_block |-> <<>>]
TilingConstraint(d, t) ==
    [kind |-> "Tiling", dim |-> d, tile_size |-> t, workgroup_dim |-> 0,
     waves_per_block |-> <<>>]
WaveConstraint(d, t) ==
    [kind |-> "Wave", dim |-> d, tile_size |-> t, workgroup_dim |-> 0,
     waves_per_block |-> <<>>]

(* general_utils.ceildiv: -(a // -b); a // 0 raises ZeroDivisionError, so  *)
(* callers test b = 0 before using it.                                     *)
ceildiv(a, b) == -((-a) \div b)

(* IndexingContext.get_static_value on a symbol: its value in idxc.subs,   *)
(* None when the symbol is not bound.                                      *)
get_static_value(sym, sb) == IF sym \in DOMAIN sb THEN <<sb[sym]>> ELSE <<>>

(* lines 63-67 *)
hardware_constraints(cs) == SelectSeq(cs, LAMBDA c : c.kind = "Hardware")

(* mutant: only a missing hardware constraint is rejected *)
hardware_constraint_missing(cs) == Len(hardware_constraints(cs)) = 0

(* lines 68-69: the cardinality test that raises ValueError *)
hardware_constraint_error(cs) == Len(hardware_constraints(cs)) # 1

(* lines 78-89: the static tile size; a shape entry dim/k (k # 1) has the  *)
(* tile size substituted for dim before it is resolved.                    *)
tile_size_of(c, nd, sb) ==
    LET base == get_static_value(c.tile_size, sb)
    IN  IF c.dim \in DOMAIN nd.dim_to_shape /\ nd.dim_to_shape[c.dim] # 1
        THEN IF base = <<>> THEN <<>>
             ELSE <<base[1] \div nd.dim_to_shape[c.dim]>>
        ELSE base

(* mutant: the hardware constraint's waves_per_block is not consulted *)
wave_count_without_hardware(c, hw_cons) == 1

(* lines 98-100 *)
wave_count_of(c, hw_cons) ==
    IF c.kind = "Workgroup"
    THEN hw_cons.waves_per_block[c.workgroup_dim + 1]
    ELSE 1

(* mutant: only the wave count is tested *)
not_divisible_by_waves(tile_size, wave_count, vector_size) ==
    tile_size % wave_count # 0

(* lines 106-109: the test guarding the diagnostic.  tile_size /           *)
(* wave_count is a float division, evaluated only when the first disjunct  *)
(* is false, i.e. when the quotient is an exact integer.                   *)
not_divisible(tile_size, wave_count, vector_size) ==
    IF tile_size % wave_count # 0 THEN TRUE
    ELSE (tile_size \div wave_count) % vector_size # 0

(* lines 90-96: the constraint is passed over without a factor *)
skips_constraint(c, nd) ==
    \/ c.dim \notin DOMAIN nd.vector_shapes
    \/ nd.vector_shapes[c.dim] = 0

(* lines 76-116: one iteration of the loop over the constraints, for       *)
(* integer vector sizes and wave counts (a None among them raises the      *)
(* ValueError of line 102 as an unresolved tile size does).                *)
scale_constraint(acc, c, nd, sb, hw_cons) ==
    IF acc.status # "ok" \/ c.kind \notin {"Workgroup", "Tiling"} THEN acc
    ELSE IF skips_constraint(c, nd) THEN acc
    ELSE LET vector_size == nd.vector_shapes[c.dim]
             wave_count == wave_count_of(c, hw_cons)
             tile_size == tile_size_of(c, nd, sb)
         IN  IF tile_size = <<>>
             THEN [acc EXCEPT !.status = "ValueError"]
             ELSE [acc EXCEPT
                     !.dim_scaling =
                         Put(@, c.dim, ceildiv(tile_size[1], wave_count * vector_size)),
                     !.log =
                         IF not_divisible(tile_size[1], wave_count, vector_size)
                         THEN Append(@, [dim |-> c.dim, tile_size |-> tile_size[1],
                                         wave_count |-> wave_count,
                                         vector_size |-> vector_size])
                         ELSE @]

(* lines 75-116: the loop, constraints i..Len(cs) still to be processed *)
RECURSIVE scale_constraints(_, _, _, _, _, _)
scale_constraints(acc, cs, i, nd, sb, hw_cons) ==
    IF i > Len(cs) THEN acc
    ELSE scale_constraints(scale_constraint(acc, cs[i], nd, sb, hw_cons),
                           cs, i + 1, nd, sb, hw_cons)

(* lines 123-128: the guard of the rule for unconstrained dimensions; the  *)
(* conjuncts are evaluated left to right, vector_shapes[dim] last.         *)
not_computed(dim, ds) == dim \notin DOMAIN ds
is_static_dim(dim, sb) == dim \in DOMAIN sb
is_non_batch(dim, nd) == nd.vector_shapes[dim] > 0

(* mutant: a batch dimension is expanded as if its vector width were 1 *)
scale_indexing_dim_batch(acc, dim, nd, sb) ==
    IF acc.status # "ok" THEN acc
    ELSE IF ~(not_computed(dim, acc.dim_scaling) /\ is_static_dim(dim, sb)) THEN acc
    ELSE IF dim \notin DOMAIN nd.vector_shapes
         THEN [acc EXCEPT !.status = "KeyError"]
    ELSE [acc EXCEPT !.dim_scaling =
            Put(@, dim, IF nd.vector_shapes[dim] = 0 THEN sb[dim]
                        ELSE ceildiv(sb[dim], nd.vector_shapes[dim]))]

(* mutant: the rule does not test whether the dimension is computed *)
scale_indexing_dim_overwrite(acc, dim, nd, sb) ==
    IF acc.status # "ok" THEN acc
    ELSE IF ~is_static_dim(dim, sb) THEN acc
    ELSE IF dim \notin DOMAIN nd.vector_shapes
         THEN [acc EXCEPT !.status = "KeyError"]
    ELSE IF ~is_non_batch(dim, nd) THEN acc
    ELSE [acc EXCEPT !.dim_scaling =
            Put(@, dim, ceildiv(sb[dim], nd.vector_shapes[dim]))]

(* lines 127-131: one iteration of the loop over node.indexing_dims *)
scale_indexing_dim(acc, dim, nd, sb) ==
    IF acc.status # "ok" THEN acc
    ELSE IF ~(not_computed(dim, acc.dim_scaling) /\ is_static_dim(dim, sb)) THEN acc
    ELSE IF dim \notin DOMAIN nd.vector_shapes
         THEN [acc EXCEPT !.status = "KeyError"]
    ELSE IF ~is_non_batch(dim, nd) THEN acc
    ELSE [acc EXCEPT !.dim_scaling =
            Put(@, dim, ceildiv(sb[dim], nd.vector_shapes[dim]))]

RECURSIVE scale_indexing_dims(_, _, _, _, _)
scale_indexing_dims(acc, dims, i, nd, sb) ==
    IF i > Len(dims) THEN acc
    ELSE scale_indexing_dims(scale_indexing_dim(acc, dims[i], nd, sb),
                             dims, i + 1, nd, sb)

(* lines 134-139: the reduction dimension of a ReduceOp *)
scale_reduction_dim(acc, nd, sb) ==
    IF acc.status # "ok" \/ nd.reduction_dim = <<>> THEN acc
    ELSE LET reduction_dim == nd.reduction_dim[1]
         IN  IF ~(not_computed(reduction_dim, acc.dim_scaling)
                  /\ is_static_dim(reduction_dim, sb)) THEN acc
             ELSE IF reduction_dim \notin DOMAIN nd.vector_shapes
                  THEN [acc EXCEPT !.status = "KeyError"]
             ELSE IF nd.vector_shapes[reduction_dim] = 0
                  THEN [acc EXCEPT !.status = "ZeroDivisionError"]
             ELSE [acc EXCEPT !.dim_scaling =
                     Put(@, reduction_dim,
                         ceildiv(sb[reduction_dim], nd.vector_shapes[reduction_dim]))]

NoScaling == [status |-> "ok", dim_scaling |-> EmptyMap, log |-> <<>>]

(* lines 75-116 applied to a whole call: the state of dim_scaling and of   *)
(* the log when the loop over the constraints is left.                     *)
after_constraints(cs, nd, sb) ==
    scale_constraints(NoScaling, cs, 1, nd, sb, hardware_constraints(cs)[1])

(* lines 118-131: the DataType return and the loop over indexing_dims *)
after_indexing_dims(cs, nd, sb) ==
    LET c == after_constraints(cs, nd, sb)
    IN  IF c.status # "ok" THEN c
        ELSE IF nd.is_datatype THEN [c EXCEPT !.dim_scaling = EmptyMap]
        ELSE scale_indexing_dims(c, nd.indexing_dims, 1, nd, sb)

(* lines 55-141 *)
get_dim_scaling(cs, nd, sb) ==
    IF nd.vector_shapes_is_none THEN NoScaling
    ELSE IF hardware_constraint_error(cs)
         THEN [NoScaling EXCEPT !.status = "ValueError"]
    ELSE IF nd.is_datatype THEN after_indexing_dims(cs, nd, sb)
    ELSE scale_reduction_dim(after_indexing_dims(cs, nd, sb), nd, sb)

(***************************************************************************)
(* Inputs of get_dim_scaling.                                              *)
(***************************************************************************)
SeqsUpTo(S, n) == UNION {[1..k -> S] : k \in 0..n}
PartialMaps(K, V) == UNION {[D -> V] : D \in SUBSET K}
Merge(f, g) == [x \in DOMAIN f \cup DOMAIN g |-> IF x \in DOMAIN f THEN f[x] ELSE g[x]]

HW == HardwareConstraint(<<2, 1, 1>>)
WG_M == WorkgroupConstraint("M", "BLOCK_M", 0)
WG_K == WorkgroupConstraint("K", "BLOCK_K", 1)
TL_M == TilingConstraint("M", "BLOCK_M")
TL_K == TilingConstraint("K", "BLOCK_K")
WV_M == WaveConstraint("M", "BLOCK_M")
ConstraintUniverse == {HW, WG_M, WG_K, TL_M, TL_K}

(* Lists in which two constraints name the same dimension, and lists with *)
(* a constraint of another kind.                                           *)
OverrideLists ==
    {<<HW, WG_M, TL_M>>, <<HW, TL_M, WG_M>>, <<WG_M, HW, TL_M>>, <<TL_K, WG_K, HW>>,
     <<WV_M>>, <<HW, WV_M>>, <<WV_M, HW, WG_M>>, <<HW, TL_M, WV_M>>}

VectorShapes == PartialMaps(Dims, 0..MaxVec)
PureShape == [d \in Dims |-> 1]

Node(none, vs, dt, shape, idims, rd) ==
    [vector_shapes_is_none |-> none, vector_shapes |-> vs, is_datatype |-> dt,
     dim_to_shape |-> shape, indexing_dims |-> idims, reduction_dim |-> rd]

(* Calls that vary the constraint list and the tile sizes, on an operation *)
(* of shape (M, K) whose extents are not static.                           *)
ConstraintCalls ==
    {<<cs, Node(FALSE, vs, FALSE, PureShape, <<"M", "K">>, <<>>), sb>> :
        cs \in SeqsUpTo(ConstraintUniverse, MaxConstraints) \cup OverrideLists,
        vs \in VectorShapes,
        sb \in PartialMaps({"BLOCK_M", "BLOCK_K"}, 1..MaxTile)}
    \cup
    {<<cs, Node(TRUE, EmptyMap, FALSE, PureShape, <<"M", "K">>, <<>>),
       [s \in {"BLOCK_M", "BLOCK_K"} |-> MaxTile]>> :
        cs \in SeqsUpTo(ConstraintUniverse, MaxConstraints)}

(* Calls that vary the operation (type, indexing dims, reduction dim,      *)
(* vector shapes) and the static extents, under a few constraint lists.    *)
NodeCalls ==
    {<<cs, Node(FALSE, vs, ty[1], ty[2], idims, rd),
       Merge([s \in {"BLOCK_M", "BLOCK_K"} |-> 4], ext)>> :
        cs \in {<<HW>>, <<HW, WG_M>>, <<HW, TL_K>>, <<HW, WG_M, TL_K>>},
        vs \in VectorShapes,
        ty \in {<<TRUE, EmptyMap>>, <<FALSE, PureShape>>,
                <<FALSE, [d \in Dims |-> IF d = "M" THEN 2 ELSE 1]>>},
        idims \in {<<>>, <<"M">>, <<"K">>, <<"M", "K">>},
        rd \in {<<>>, <<"M">>, <<"K">>},
        ext \in PartialMaps(Dims, 1..MaxExtent)}

ScalingCalls == ConstraintCalls \cup NodeCalls

Pending == [pc |-> "ready", result |-> NoScaling]

NoCall == [op |-> "none"]

(* no graph is under cleanup *)
IdleCleanup ==
    /\ graph = <<>>
    /\ leaf_nodes = <<>>
    /\ queue = <<>>
    /\ pc = "idle"

(* a LaunchableWave right after construction (wave.py, lines 190-191);    *)
(* induction_var and wave_id hold the induction_var and the wave_id       *)
(* attribute of each constraint                                           *)
LaunchableWave(cs) ==
    [constraints |-> cs, induction_vars |-> <<>>,
     induction_var |-> [i \in DOMAIN cs |-> <<>>],
     wave_id |-> [i \in DOMAIN cs |-> <<>>]]

(* no kernel is being compiled, no expansion pass is running *)
IdlePasses ==
    /\ expansion_context = <<>>
    /\ graph_passes = <<>>
    /\ pass_times = <<>>
    /\ launchable = LaunchableWave(<<>>)
    /\ trace = <<>>

InitScaling ==
    /\ IdleCleanup
    /\ IdlePasses
    /\ \E sc \in ScalingCalls :
          /\ constraints = sc[1]
          /\ node = sc[2]
          /\ subs = sc[3]
    /\ scaling = Pending
    /\ objects = <<>>
    /\ call = NoCall

(* The compiler calls get_dim_scaling(constraints, node). *)
CallGetDimScaling ==
    /\ scaling.pc = "ready"
    /\ scaling' = [pc |-> "done", result |-> get_dim_scaling(constraints, node, subs)]
    /\ UNCHANGED <<constraints, node, subs, objects, call, cleanupVars, passVars>>

NextScaling == CallGetDimScaling

SpecScaling == InitScaling /\ [][NextScaling]_vars

(***************************************************************************)
(* IndexMapping (wave_types.py).  An index expression is one of            *)
(*   $index<idx>, a symbol <sym>, an integer <val>,                        *)
(*   $index<idx> + <sym>, $index<idx> + <val>.                             *)
(* A SymbolsMap is the sequence of its items in insertion order.           *)
(***************************************************************************)
Iter(i) == [kind |-> "iter", idx |-> i, sym |-> "", val |-> 0]
Sym(x) == [kind |-> "sym", idx |-> 0, sym |-> x, val |-> 0]
Const(n) == [kind |-> "const", idx |-> 0, sym |-> "", val |-> n]
Add(i, x) == [kind |-> "add", idx |-> i, sym |-> x, val |-> 0]
AddC(i, n) == [kind |-> "addc", idx |-> i, sym |-> "", val |-> n]
Item(k, e) == [key |-> k, expr |-> e]

(* lines 275-277 *)
iterator(index) == Iter(index)

(* lines 279-281: the symbol $dynamic_val<index>, a symbol like any other *)
dynamic_val(index) == [kind |-> "sym", idx |-> index, sym |-> "$dynamic_val", val |-> 0]

(* line 221: the iterators in insertion order; iters[e] is the position of *)
(* e in this sequence, less one.                                           *)
make_iters(num_iterators) == [i \in 1..num_iterators |-> iterator(i - 1)]

(* line 224: iters.get(expr, None), as a position 1..n, 0 for None *)
iters_get(iters, expr) ==
    IF \E i \in DOMAIN iters : iters[i] = expr
    THEN CHOOSE i \in DOMAIN iters : iters[i] = expr
    ELSE 0

(* mutant: a second coordinate mapped to an iterator replaces the first *)
unify_last_wins(acc, item, iters) ==
    IF acc.status # "ok" THEN acc
    ELSE LET i == iters_get(iters, item.expr)
         IN  IF i = 0 THEN acc
             ELSE [acc EXCEPT !.iter_shape[i] = <<item.key>>]

(* lines 223-232: one iteration of the loop over the chained items *)
unify(acc, item, iters) ==
    IF acc.status # "ok" THEN acc
    ELSE LET i == iters_get(iters, item.expr)
         IN  IF i = 0 THEN acc
             ELSE LET current == acc.iter_shape[i]
                  IN  IF current = <<>> \/ current = <<item.key>>
                      THEN [acc EXCEPT !.iter_shape[i] = <<item.key>>]
                      ELSE [acc EXCEPT !.status = "AssertionError",
                                       !.error = "Iterator conflict"]

RECURSIVE unify_all(_, _, _, _)
unify_all(acc, items, k, iters) ==
    IF k > Len(items) THEN acc
    ELSE unify_all(unify(acc, items[k], iters), items, k + 1, iters)

(* mutant: the final test of the iteration domain is left out *)
undetermined_never(iter_shape) == FALSE

(* lines 234-236: some iterator has no inferred size symbol *)
undetermined(iter_shape) == \E i \in DOMAIN iter_shape : iter_shape[i] = <<>>

(* lines 214-248: the constructor, called with a tuple of dynamic value    *)
(* mappings; obj is meaningful when status = "ok".                         *)
(* An iterator without size symbol (reachable with the final test left     *)
(* out) keeps the name "None" in iteration_shape.                          *)
IndexMapping(num_iterators, inputs, outputs, dynamic_val_mappings) ==
    LET iters == make_iters(num_iterators)
        start == [status |-> "ok", error |-> "",
                  iter_shape |-> [i \in 1..num_iterators |-> <<>>]]
        loop == unify_all(start, inputs \o outputs, 1, iters)
        obj == [iters |-> iters,
                iteration_shape |->
                    [i \in 1..num_iterators |->
                        IF loop.iter_shape[i] = <<>> THEN "None"
                        ELSE loop.iter_shape[i][1]],
                input_mapping |-> inputs,
                output_mapping |-> outputs,
                dynamic_val_mappings |-> dynamic_val_mappings,
                dynamic_val_indices |->
                    [i \in 1..Len(dynamic_val_mappings) |-> dynamic_val(i - 1)]]
    IN  IF loop.status # "ok"
        THEN [status |-> loop.status, error |-> loop.error, obj |-> obj]
        ELSE IF undetermined(loop.iter_shape)
        THEN [status |-> "AssertionError",
              error |-> "Cannot determine iteration domain", obj |-> obj]
        ELSE [status |-> "ok", error |-> "", obj |-> obj]

(* lines 250-252 *)
num_iterators_of(self) == Len(self.iters)

(* sympy's expr.subs((old, new)) on the expressions above, for old a       *)
(* symbol or an iterator and new a symbol, an integer or an iterator.      *)
subs_one(expr, old, new) ==
    IF expr = old THEN new
    ELSE IF expr.kind = "add" /\ old = Sym(expr.sym) /\ new.kind = "sym"
         THEN Add(expr.idx, new.sym)
    ELSE IF expr.kind = "add" /\ old = Sym(expr.sym) /\ new.kind = "const"
         THEN AddC(expr.idx, new.val)
    ELSE IF expr.kind \in {"add", "addc"} /\ old = Iter(expr.idx) /\ new.kind = "iter"
         THEN [expr EXCEPT !.idx = new.idx]
    ELSE expr

(* lines 175-179: expr.subs(subs), the pairs applied one after the other *)
RECURSIVE _subs_expr(_, _)
_subs_expr(expr, sb) ==
    IF sb = <<>> THEN expr
    ELSE _subs_expr(subs_one(expr, sb[1][1], sb[1][2]), Tail(sb))

(* lines 259-264: a dict comprehension over a mapping *)
subs_mapping(mapping, sb) ==
    [k \in DOMAIN mapping |-> Item(mapping[k].key, _subs_expr(mapping[k].expr, sb))]

(* mutant: zip() stops at the shorter argument and the lengths are not     *)
(* compared                                                                *)
_is_identity_mapping_zip(iters, mapping) ==
    \A i \in DOMAIN iters \cap DOMAIN mapping : iters[i] = mapping[i].expr

(* lines 182-190 *)
_is_identity_mapping(iters, mapping) ==
    IF Len(iters) # Len(mapping) THEN FALSE
    ELSE \A i \in DOMAIN iters : iters[i] = mapping[i].expr

(* lines 293-300 *)
is_input_identity(self) == _is_identity_mapping(self.iters, self.input_mapping)
is_output_identity(self) == _is_identity_mapping(self.iters, self.output_mapping)
is_identity(self) == is_input_identity(self) /\ is_output_identity(self)

(* mutant: the mappings of the receiver are rewritten in place and the     *)
(* receiver is returned                                                    *)
substitute_in_place(objs, self, sb) ==
    [objs |-> [objs EXCEPT ![self].input_mapping = subs_mapping(@, sb),
                           ![self].output_mapping = subs_mapping(@, sb)],
     status |-> "ok", error |-> "", result |-> self]

(* lines 258-265: substitute on the instance at address self of the heap   *)
(* objs; the new instance gets the next free address.                      *)
substitute(objs, self, sb) ==
    LET new_inputs == subs_mapping(objs[self].input_mapping, sb)
        new_outputs == subs_mapping(objs[self].output_mapping, sb)
        made == IndexMapping(num_iterators_of(objs[self]), new_inputs, new_outputs, <<>>)
    IN  IF made.status = "ok"
        THEN [objs |-> Append(objs, made.obj), status |-> "ok", error |-> "",
              result |-> Len(objs) + 1]
        ELSE [objs |-> objs, status |-> made.status, error |-> made.error,
              result |-> 0]

(***************************************************************************)
(* Construction and the identity queries of an IndexMapping.               *)
(***************************************************************************)
Coords == {"X", "Y"}
Exprs == {Iter(i) : i \in 0..(MaxIterators - 1)} \cup {Sym("S"), Add(0, "S")}
Items == {Item(k, e) : k \in Coords, e \in Exprs}
(* the dictionaries with at most two of the coordinates as keys *)
Mappings ==
    {m \in SeqsUpTo(Items, 2) : \A i, j \in DOMAIN m : i # j => m[i].key # m[j].key}
DynamicValMappings == {<<>>, << <<Item("X", Iter(0))>> >>}

IdleScaling ==
    /\ constraints = <<>>
    /\ node = Node(TRUE, EmptyMap, FALSE, EmptyMap, <<>>, <<>>)
    /\ subs = EmptyMap
    /\ scaling = Pending

InitMapping ==
    /\ IdleCleanup
    /\ IdlePasses
    /\ IdleScaling
    /\ objects = <<>>
    /\ call = NoCall

(* IndexMapping(num_iterators, inputs, outputs, dynamic_val_mappings) *)
Construct ==
    /\ objects = <<>> /\ call = NoCall
    /\ \E n \in 0..MaxIterators, ins \in Mappings, outs \in Mappings,
          dyn \in DynamicValMappings :
          LET made == IndexMapping(n, ins, outs, dyn)
          IN  /\ objects' = IF made.status = "ok" THEN <<made.obj>> ELSE <<>>
              /\ call' = [op |-> "construct", num_iterators |-> n, inputs |-> ins,
                          outputs |-> outs, dynamic_val_mappings |-> dyn,
                          status |-> made.status,
                          error |-> made.error,
                          result |-> IF made.status = "ok" THEN 1 ELSE 0]
    /\ UNCHANGED <<scalingVars, cleanupVars, passVars>>

IsInputIdentity ==
    /\ \E self \in DOMAIN objects :
          call' = [op |-> "is_input_identity", self |-> self,
                   result |-> is_input_identity(objects[self])]
    /\ UNCHANGED <<objects, constraints, node, subs, scaling, cleanupVars, passVars>>

IsOutputIdentity ==
    /\ \E self \in DOMAIN objects :
          call' = [op |-> "is_output_identity", self |-> self,
                   result |-> is_output_identity(objects[self])]
    /\ UNCHANGED <<objects, constraints, node, subs, scaling, cleanupVars, passVars>>

IsIdentity ==
    /\ \E self \in DOMAIN objects :
          call' = [op |-> "is_identity", self |-> self,
                   result |-> is_identity(objects[self])]
    /\ UNCHANGED <<objects, constraints, node, subs, scaling, cleanupVars, passVars>>

NextMapping == Construct \/ IsInputIdentity \/ IsOutputIdentity \/ IsIdentity

SpecMapping == InitMapping /\ [][NextMapping]_vars

(***************************************************************************)
(* Sequences of substitute calls on the instances of a heap that starts    *)
(* with one constructed instance.                                          *)
(***************************************************************************)
ReceiverOutputs ==
    {<<>>, <<Item("X", Iter(0))>>, <<Item("X", Iter(0)), Item("Y", Add(0, "S"))>>,
     <<Item("Y", Sym("S"))>>}
Receivers ==
    {made.obj : made \in
        {r \in {IndexMapping(n, ins, outs, <<>>) :
                    n \in 0..MaxIterators, ins \in Mappings, outs \in ReceiverOutputs} :
            r.status = "ok"}}
SubsLists ==
    {<<>>,
     << <<Sym("S"), Sym("T")>> >>,
     << <<Sym("S"), Const(4)>> >>,
     << <<Sym("S"), Sym("T")>>, <<Sym("T"), Const(4)>> >>,
     << <<Iter(0), Iter(1)>> >>}

InitSubstitute ==
    /\ IdleCleanup
    /\ IdlePasses
    /\ IdleScaling
    /\ \E r \in Receivers : objects = <<r>>
    /\ call = NoCall

(* self.substitute(subs) *)
Substitute ==
    /\ Len(objects) < MaxObjects
    /\ \E self \in DOMAIN objects, sb \in SubsLists :
          LET r == substitute(objects, self, sb)
          IN  /\ objects' = r.objs
              /\ call' = [op |-> "substitute", self |-> self, subs |-> sb,
                          status |-> r.status, error |-> r.error, result |-> r.result]
    /\ UNCHANGED <<scalingVars, cleanupVars, passVars>>

NextSubstitute == Substitute

SpecSubstitute == InitSubstitute /\ [][NextSubstitute]_vars

(***************************************************************************)
(* Properties of get_dim_scaling.                                          *)
(***************************************************************************)
Done == scaling.pc = "done"
Res == scaling.result
Returned == Done /\ Res.status = "ok"

HardwareCount == Cardinality({i \in DOMAIN constraints : constraints[i].kind = "Hardware"})
TheHardware ==
    constraints[CHOOSE i \in DOMAIN constraints : constraints[i].kind = "Hardware"]

(* f = ceil(a / b) for positive b, stated without ceildiv *)
IsCeil(f, a, b) == f * b >= a /\ (f - 1) * b < a

(* Constraint i is a Workgroup or Tiling constraint on a dimension of      *)
(* nonzero vector width.                                                   *)
Scales(i) ==
    /\ constraints[i].kind \in {"Workgroup", "Tiling"}
    /\ constraints[i].dim \in DOMAIN node.vector_shapes
    /\ node.vector_shapes[constraints[i].dim] # 0
LastScaling(i) ==
    /\ Scales(i)
    /\ \A j \in DOMAIN constraints :
          j > i => ~(Scales(j) /\ constraints[j].dim = constraints[i].dim)
ScaledDims == {constraints[i].dim : i \in {j \in DOMAIN constraints : Scales(j)}}

TileKnown(i) == constraints[i].tile_size \in DOMAIN subs
ShapeDivisor(d) == IF d \in DOMAIN node.dim_to_shape THEN node.dim_to_shape[d] ELSE 1
TileSize(i) == subs[constraints[i].tile_size] \div ShapeDivisor(constraints[i].dim)
WaveCount(i) ==
    IF constraints[i].kind = "Workgroup"
    THEN TheHardware.waves_per_block[constraints[i].workgroup_dim + 1]
    ELSE 1
VectorSize(i) == node.vector_shapes[constraints[i].dim]

(* C1: in the map returned for a shaped operation, the dimension of every  *)
(* Workgroup or Tiling constraint with nonzero vector width and positive   *)
(* static tile size holds ceil(tile_size / (wave_count * vector_size)) of  *)
(* the last such constraint naming it, with wave_count taken from          *)
(* waves_per_block at the workgroup dimension for a Workgroup constraint   *)
(* and 1 for a Tiling constraint, and the factor is >= 1; the same factor  *)
(* is in the map right after the constraint has been processed.            *)
C1_ScalingFactor ==
    (Returned /\ ~node.vector_shapes_is_none /\ ~node.is_datatype) =>
        \A i \in DOMAIN constraints :
            (Scales(i) /\ TileSize(i) > 0) =>
                LET d == constraints[i].dim
                    q == WaveCount(i) * VectorSize(i)
                    upto == scale_constraints(NoScaling, SubSeq(constraints, 1, i), 1,
                                              node, subs, TheHardware)
                IN  /\ d \in DOMAIN upto.dim_scaling
                    /\ IsCeil(upto.dim_scaling[d], TileSize(i), q)
                    /\ upto.dim_scaling[d] >= 1
                    /\ LastScaling(i) =>
                          /\ d \in DOMAIN Res.dim_scaling
                          /\ IsCeil(Res.dim_scaling[d], TileSize(i), q)
                          /\ Res.dim_scaling[d] >= 1

C1_Witness ==
    /\ Returned
    /\ \E i \in DOMAIN constraints :
          /\ LastScaling(i) /\ constraints[i].kind = "Workgroup"
          /\ WaveCount(i) = 2 /\ VectorSize(i) = 1 /\ TileSize(i) = 3
          /\ Res.dim_scaling[constraints[i].dim] = 2

(* C2 as stated: any call with zero or several Hardware constraints fails. *)
C2_Original == (Done /\ HardwareCount # 1) => Res.status = "ValueError"

(* C2 amended: a call on an operation that has vector shapes fails with    *)
(* ValueError when the constraints do not hold exactly one Hardware        *)
(* constraint; a call on an operation whose vector_shapes is None returns  *)
(* the empty map whatever the constraints are.                             *)
C2_HardwareConstraint ==
    Done =>
        /\ (~node.vector_shapes_is_none /\ HardwareCount # 1)
              => Res.status = "ValueError"
        /\ node.vector_shapes_is_none
              => (Res.status = "ok" /\ Res.dim_scaling = EmptyMap)

C2_Witness ==
    /\ Done /\ ~node.vector_shapes_is_none /\ HardwareCount = 2
    /\ node.vector_shapes = [d \in Dims |-> 1]
    /\ Res.status = "ValueError"

(* C3: every key of a returned map has nonzero vector width; a dimension   *)
(* of vector width 0 is in no returned map.                                *)
C3_NoBatchDims ==
    Returned =>
        \A d \in DOMAIN Res.dim_scaling :
            d \in DOMAIN node.vector_shapes /\ node.vector_shapes[d] # 0

C3_Witness ==
    /\ Returned /\ ~node.is_datatype
    /\ \E i \in DOMAIN constraints :
          /\ constraints[i].kind \in {"Workgroup", "Tiling"}
          /\ constraints[i].dim = "M" /\ TileKnown(i)
    /\ node.vector_shapes = [d \in Dims |-> 0]
    /\ node.indexing_dims = <<"M", "K">>
    /\ {"M", "K"} \subseteq DOMAIN subs
    /\ Res.dim_scaling = EmptyMap

(* C4 as stated: the reduction dimension of a ReduceOp whose vector width  *)
(* is defined gets ceil(extent / vector_width) exactly when it is not yet  *)
(* computed, static and of nonzero vector width, and is otherwise left     *)
(* out, the call returning in either case.                                 *)
C4_ReductionDim ==
    LET pre == after_indexing_dims(constraints, node, subs)
        rd == node.reduction_dim[1]
    IN  (/\ Done /\ ~node.vector_shapes_is_none /\ HardwareCount = 1
         /\ ~node.is_datatype /\ node.reduction_dim # <<>>
         /\ pre.status = "ok"
         /\ rd \in DOMAIN node.vector_shapes) =>
            /\ Res.status = "ok"
            /\ IF /\ rd \notin DOMAIN pre.dim_scaling
                  /\ rd \in DOMAIN subs
                  /\ node.vector_shapes[rd] # 0
               THEN /\ DOMAIN Res.dim_scaling = DOMAIN pre.dim_scaling \cup {rd}
                    /\ IsCeil(Res.dim_scaling[rd], subs[rd], node.vector_shapes[rd])
               ELSE Res.dim_scaling = pre.dim_scaling

(* C5: the diagnostics logged by a returning call are, in order, those of  *)
(* the scaling constraints whose tile size is not a multiple of            *)
(* wave_count * vector_size; such a constraint still gets the rounded-up   *)
(* factor; and the code's two-step test agrees with the one-step test on   *)
(* all small positive integers.                                            *)
Indivisible(i) == Scales(i) /\ TileSize(i) % (WaveCount(i) * VectorSize(i)) # 0
RECURSIVE ExpectedLog(_)
ExpectedLog(i) ==
    IF i = 0 THEN <<>>
    ELSE IF Indivisible(i)
         THEN Append(ExpectedLog(i - 1),
                     [dim |-> constraints[i].dim, tile_size |-> TileSize(i),
                      wave_count |-> WaveCount(i), vector_size |-> VectorSize(i)])
         ELSE ExpectedLog(i - 1)

C5_Diagnostic ==
    /\ \A t \in 1..(4 * MaxTile), w \in 1..MaxTile, v \in 1..(MaxVec + 1) :
          not_divisible(t, w, v) <=> (t % (w * v) # 0)
    /\ (Returned /\ ~node.vector_shapes_is_none) =>
          /\ Res.log = ExpectedLog(Len(constraints))
          /\ ~node.is_datatype =>
                \A i \in DOMAIN constraints :
                    (Indivisible(i) /\ LastScaling(i)) =>
                        /\ constraints[i].dim \in DOMAIN Res.dim_scaling
                        /\ IsCeil(Res.dim_scaling[constraints[i].dim],
                                  TileSize(i), WaveCount(i) * VectorSize(i))

C5_Witness ==
    /\ Returned /\ ~node.is_datatype
    /\ Len(Res.log) = 1
    /\ Res.log[1] = [dim |-> "M", tile_size |-> 2, wave_count |-> 2, vector_size |-> 2]
    /\ Res.dim_scaling["M"] = 1

(* C6: in the map returned for a shaped operation, an indexed dimension    *)
(* scaled by a constraint keeps the constraint's factor; an indexed        *)
(* dimension not scaled by a constraint, of static extent and nonzero      *)
(* vector width, holds ceil(extent / vector_width); no other indexed       *)
(* dimension has an entry.                                                 *)
Indexed == {node.indexing_dims[i] : i \in DOMAIN node.indexing_dims}

C6_UnconstrainedDims ==
    (Returned /\ ~node.vector_shapes_is_none /\ ~node.is_datatype) =>
        \A d \in Indexed :
            IF d \in ScaledDims
            THEN /\ d \in DOMAIN Res.dim_scaling
                 /\ \A i \in DOMAIN constraints :
                       (LastScaling(i) /\ constraints[i].dim = d) =>
                           Res.dim_scaling[d] =
                               after_constraints(constraints, node, subs).dim_scaling[d]
            ELSE IF /\ d \in DOMAIN subs
                    /\ d \in DOMAIN node.vector_shapes
                    /\ node.vector_shapes[d] # 0
                 THEN /\ d \in DOMAIN Res.dim_scaling
                      /\ IsCeil(Res.dim_scaling[d], subs[d], node.vector_shapes[d])
                 ELSE d \notin DOMAIN Res.dim_scaling

C6_Witness ==
    /\ Returned /\ ~node.is_datatype
    /\ node.indexing_dims = <<"M", "K">>
    /\ ScaledDims = {"M"}
    /\ {"M", "K"} \subseteq DOMAIN subs /\ subs["M"] = 3 /\ subs["K"] = 3
    /\ node.vector_shapes = [d \in Dims |-> 2]
    /\ Res.dim_scaling = [d \in Dims |-> IF d = "M" THEN 1 ELSE 2]

(***************************************************************************)
(* Properties of IndexMapping.                                             *)
(***************************************************************************)
Constructed == call.op = "construct"
Chained == call.inputs \o call.outputs
(* the coordinates mapped verbatim to $index<i> by the arguments *)
Unified(i) == {Chained[k].key : k \in {j \in DOMAIN Chained : Chained[j].expr = Iter(i)}}
Allocated == 0..(call.num_iterators - 1)

(* C7 as stated: construction fails whenever one coordinate is mapped      *)
(* verbatim to two different iterators.                                    *)
C7_Original ==
    (/\ Constructed
     /\ \E i, j \in 0..MaxIterators :
           i # j /\ Unified(i) \cap Unified(j) # {}) =>
        call.status # "ok"

(* C7 amended: construction fails with an iterator conflict whenever the   *)
(* mappings send two different coordinates verbatim to one of the          *)
(* iterators $index0..$index(n-1), as inputs={X: $index0},                 *)
(* outputs={Y: $index0} do for n >= 1.                                     *)
C7_IteratorConflict ==
    (/\ Constructed
     /\ \E i \in Allocated : Cardinality(Unified(i)) > 1) =>
        /\ call.status = "AssertionError"
        /\ call.error = "Iterator conflict"
        /\ objects = <<>>

C7_Witness ==
    /\ Constructed
    /\ call.num_iterators = 1
    /\ call.inputs = <<Item("X", Iter(0))>>
    /\ call.outputs = <<Item("Y", Iter(0))>>
    /\ call.status = "AssertionError"

(* C8: construction succeeds exactly when (1) every allocated iterator is  *)
(* the mapped expression of some coordinate and (2) no allocated iterator  *)
(* is the mapped expression of two different coordinates; it fails with an *)
(* iterator conflict when (2) is violated (the loop raises first) and with *)
(* an undeterminable iteration domain when only (1) is violated; on        *)
(* success iteration_shape[i] is the coordinate unified with iterator i.   *)
Determined == \A i \in Allocated : Unified(i) # {}
Consistent == \A i \in Allocated : Cardinality(Unified(i)) <= 1

C8_Construction ==
    Constructed =>
        /\ call.status = "ok" <=> (Determined /\ Consistent)
        /\ ~Consistent => call.error = "Iterator conflict"
        /\ (Consistent /\ ~Determined) =>
              call.error = "Cannot determine iteration domain"
        /\ call.status # "ok" => (call.status = "AssertionError" /\ objects = <<>>)
        /\ call.status = "ok" =>
              /\ Len(objects) = 1 /\ call.result = 1
              /\ Len(objects[1].iteration_shape) = call.num_iterators
              /\ \A i \in Allocated : Unified(i) = {objects[1].iteration_shape[i + 1]}
              /\ objects[1].input_mapping = call.inputs
              /\ objects[1].output_mapping = call.outputs

C8_Witness ==
    /\ Constructed
    /\ call.num_iterators = 2
    /\ call.inputs = <<Item("X", Iter(0)), Item("Y", Iter(1))>>
    /\ call.outputs = <<Item("X", Iter(0)), Item("Y", Iter(1))>>
    /\ call.status = "ok"
    /\ objects[1].iteration_shape = <<"X", "Y">>

(* C9: is_input_identity (is_output_identity) answers TRUE exactly when    *)
(* the input (output) mapping has num_iterators items and its i-th mapped  *)
(* expression is $index<i>; is_identity exactly when both do.              *)
ReproducesIterators(self, mapping) ==
    /\ Len(mapping) = Len(self.iters)
    /\ \A i \in 1..Len(mapping) : mapping[i].expr = Iter(i - 1)

C9_Identity ==
    /\ call.op = "is_input_identity" =>
          (call.result <=>
              ReproducesIterators(objects[call.self], objects[call.self].input_mapping))
    /\ call.op = "is_output_identity" =>
          (call.result <=>
              ReproducesIterators(objects[call.self], objects[call.self].output_mapping))
    /\ call.op = "is_identity" =>
          (call.result <=>
              /\ ReproducesIterators(objects[call.self], objects[call.self].input_mapping)
              /\ ReproducesIterators(objects[call.self], objects[call.self].output_mapping))

C9_Witness ==
    /\ call.op = "is_identity" /\ call.result = TRUE
    /\ Len(objects[call.self].iters) = 2
    /\ objects[call.self].input_mapping = <<Item("X", Iter(0)), Item("Y", Iter(1))>>

(* C10: a substitute call changes no existing instance (the receiver       *)
(* included), whether it returns or raises; a call that returns yields an  *)
(* instance at a fresh address with the receiver's num_iterators and       *)
(* coordinate keys, each mapped expression being the receiver's with the   *)
(* substitutions applied.                                                  *)
SubstitutedFrom(new, old, sb) ==
    /\ Len(new) = Len(old)
    /\ \A k \in DOMAIN old :
          /\ new[k].key = old[k].key
          /\ new[k].expr = _subs_expr(old[k].expr, sb)

C10_SubstituteFrame ==
    [][call'.op = "substitute" =>
          /\ \A a \in DOMAIN objects : a \in DOMAIN objects' /\ objects'[a] = objects[a]
          /\ call'.status # "ok" => objects' = objects
          /\ call'.status = "ok" =>
                /\ call'.result = Len(objects) + 1
                /\ call'.result # call'.self
                /\ DOMAIN objects' = 1..call'.result
                /\ Len(objects'[call'.result].iters) = Len(objects[call'.self].iters)
                /\ SubstitutedFrom(objects'[call'.result].input_mapping,
                                   objects[call'.self].input_mapping, call'.subs)
                /\ SubstitutedFrom(objects'[call'.result].output_mapping,
                                   objects[call'.self].output_mapping, call'.subs)]_vars

C10_Witness ==
    /\ call.op = "substitute" /\ call.status = "ok"
    /\ Len(objects) = 3 /\ call.result = 3 /\ call.self = 2
    /\ objects[3].input_mapping # objects[2].input_mapping
    /\ objects[2].input_mapping # objects[1].input_mapping

(***************************************************************************)
(* Symbolic shape types (wave_types.py).  A subscript argument is a value  *)
(* tagged with its Python type; a tuple argument carries its items.        *)
(***************************************************************************)
Value(kind, val) == [kind |-> kind, val |-> val, items |-> <<>>]
Tuple(items) == [kind |-> "tuple", val |-> "", items |-> items]

isinstance(v, kind) == v.kind = kind

(* IndexExpr(s) if isinstance(s, int) else s *)
promote(s) == IF isinstance(s, "int") THEN Value("IndexExpr", s.val) ELSE s
promote_all(shape) == [i \in DOMAIN shape |-> promote(shape[i])]

Raised(kind, msg) == [status |-> kind, error |-> msg, type |-> <<>>]

(* KernelBufferMeta.new_subtype: the declared type *)
new_subtype(name, address_space, symbolic_shape, dtype, physical_layout, usage) ==
    [status |-> "ok", error |-> "",
     type |-> << [name |-> name, address_space |-> address_space,
                  symbolic_shape |-> symbolic_shape, dtype |-> dtype,
                  physical_layout |-> physical_layout, usage |-> usage] >>]

USAGE_NONE == Value("KernelBufferUsage", "NONE")
REGISTER == Value("AddressSpace", "REGISTER")

Front(s) == SubSeq(s, 1, Len(s) - 1)
Last(s) == s[Len(s)]

(* the object a subscription cls[...] hands to __class_getitem__: the      *)
(* tuple of the arguments, but a single argument as it is                  *)
subscription(args) == IF Len(args) = 1 THEN args[1] ELSE Tuple(args)

(* the characters of the str values of the declarations *)
characters(val) ==
    CASE val = "f16" -> <<"f", "1", "6">>
      [] val = "global" -> <<"g", "l", "o", "b", "a", "l">>
      [] OTHER -> <<val>>

(* the elements len(), [:-1] and [-1] see: the items of a tuple, the       *)
(* characters of a str                                                     *)
elements_of(v) ==
    IF isinstance(v, "tuple") THEN v.items
    ELSE [i \in DOMAIN characters(v.val) |-> Value("str", characters(v.val)[i])]

(* Memory[shape_and_dtype]; len() at line 73 raises on an object that is  *)
(* neither a tuple nor a str                                               *)
Memory_class_getitem(shape_and_dtype) ==
    IF ~(isinstance(shape_and_dtype, "tuple") \/ isinstance(shape_and_dtype, "str"))
    THEN Raised("TypeError", "object has no len()")
    ELSE
    LET args == elements_of(shape_and_dtype) IN
    IF Len(args) < 3
    THEN Raised("TypeError", "Expected at least 3 arguments")
    ELSE
    LET has_usage == isinstance(Last(args), "KernelBufferUsage")
        usage == IF has_usage THEN Last(args) ELSE USAGE_NONE
        l1 == IF has_usage THEN Front(args) ELSE args
        has_layout == isinstance(Last(l1), "MemoryLayout")
        physical_layout == IF has_layout THEN <<Last(l1)>> ELSE <<>>
        l2 == IF has_layout THEN Front(l1) ELSE l1
    IN  IF Len(l2) < 2
        THEN Raised("IndexError", "pop from empty list")
        ELSE
        LET dtype == Last(l2)
            addressSpace == Last(Front(l2))
            l4 == Front(Front(l2))
            unpacked == IF Len(l4) = 1 /\ isinstance(l4[1], "tuple")
                        THEN l4[1].items ELSE l4
            shape == promote_all(unpacked)
        IN  IF (\E i \in DOMAIN shape : ~isinstance(shape[i], "IndexExpr")) \/ Len(shape) = 0
            THEN Raised("TypeError", "Expected shape to be a tuple of IndexExpr")
            ELSE IF ~isinstance(dtype, "DataType")
            THEN Raised("TypeError", "Expected dtype to be a DataType")
            ELSE IF ~(isinstance(addressSpace, "IndexExpr")
                      \/ isinstance(addressSpace, "AddressSpace"))
            THEN Raised("TypeError", "Expected addressSpace to be a AddressSpace")
            ELSE IF addressSpace = REGISTER
            THEN Raised("TypeError", "Memory does not support address space register")
            ELSE new_subtype("Memory", addressSpace, shape, dtype, physical_layout, usage)

(* Register[shape_and_dtype]; len() at line 137 raises on an object that   *)
(* is neither a tuple nor a str                                            *)
Register_class_getitem(shape_and_dtype) ==
    IF ~(isinstance(shape_and_dtype, "tuple") \/ isinstance(shape_and_dtype, "str"))
    THEN Raised("TypeError", "object has no len()")
    ELSE IF Len(elements_of(shape_and_dtype)) < 2
    THEN Raised("TypeError", "Expected at least 2 arguments")
    ELSE
    LET shape == promote_all(Front(elements_of(shape_and_dtype)))
        dtype == Last(elements_of(shape_and_dtype))
    IN  IF ~isinstance(dtype, "DataType")
        THEN Raised("TypeError", "Expected dtype to be a DataType")
        ELSE new_subtype("Register", REGISTER, shape, dtype, <<>>, USAGE_NONE)

(***************************************************************************)
(* Declarations.  A declaration names its shape entries one by one or as   *)
(* one tuple, then the address space (Memory only), the dtype and the      *)
(* optional layout and usage.                                              *)
(***************************************************************************)
MaxShape == 2

ShapeEntries == {Value("IndexExpr", "M"), Value("int", "4"), Value("str", "x")}
DeclaredShapes == SeqsUpTo(ShapeEntries, MaxShape)
AddressSpaces ==
    {Value("AddressSpace", "GLOBAL_MEMORY"), Value("AddressSpace", "SHARED_MEMORY"),
     REGISTER, Value("IndexExpr", "ADDRESS_SPACE"), Value("str", "global")}
DTypes == {Value("DataType", "f16"), Value("str", "f16")}
Layouts == {<<>>, <<Value("MemoryLayout", "layout")>>}
Usages == {<<>>, <<Value("KernelBufferUsage", "INPUT")>>}

Subscript(shape, as_tuple) == IF as_tuple THEN <<Tuple(shape)>> ELSE shape

InitTypes ==
    /\ IdleCleanup
    /\ IdlePasses
    /\ IdleScaling
    /\ objects = <<>>
    /\ call = NoCall

(* Memory[shape..., address_space, dtype, layout, usage] *)
DeclareMemory ==
    /\ call = NoCall
    /\ \E shape \in DeclaredShapes, as_tuple \in BOOLEAN, a \in AddressSpaces,
          d \in DTypes, l \in Layouts, u \in Usages :
          LET args == Subscript(shape, as_tuple) \o <<a, d>> \o l \o u
              r == Memory_class_getitem(subscription(args))
          IN  /\ objects' = objects \o r.type
              /\ call' = [op |-> "Memory", shape |-> shape, address_space |-> <<a>>,
                          dtype |-> d, args |-> args,
                          status |-> r.status, error |-> r.error]
    /\ UNCHANGED <<scalingVars, cleanupVars, passVars>>

(* Register[shape..., dtype] *)
DeclareRegister ==
    /\ call = NoCall
    /\ \E shape \in DeclaredShapes, d \in DTypes :
          LET args == shape \o <<d>>
              r == Register_class_getitem(subscription(args))
          IN  /\ objects' = objects \o r.type
              /\ call' = [op |-> "Register", shape |-> shape, address_space |-> <<>>,
                          dtype |-> d, args |-> args,
                          status |-> r.status, error |-> r.error]
    /\ UNCHANGED <<scalingVars, cleanupVars, passVars>>

NextTypes == DeclareMemory \/ DeclareRegister

SpecTypes == InitTypes /\ [][NextTypes]_vars

(***************************************************************************)
(* Properties of the symbolic shape types.                                 *)
(***************************************************************************)
Declared == call.op \in {"Memory", "Register"}
NonExpression(s) == ~(isinstance(s, "IndexExpr") \/ isinstance(s, "int"))
InvalidAddressSpace ==
    /\ call.op = "Memory"
    /\ \/ ~(isinstance(call.address_space[1], "IndexExpr")
            \/ isinstance(call.address_space[1], "AddressSpace"))
       \/ call.address_space[1] = REGISTER
Malformed ==
    \/ Len(call.shape) = 0
    \/ \E i \in DOMAIN call.shape : NonExpression(call.shape[i])
    \/ ~isinstance(call.dtype, "DataType")
    \/ InvalidAddressSpace

(* C11: a Memory or Register declaration with zero shape entries, with a   *)
(* shape entry that is neither an index expression nor an integer, with a  *)
(* dtype that is not a DataType, or with an invalid address space (REGISTER *)
(* for Memory included) fails with an error and declares no type.          *)
(* Register[...] does not test its shape entries (lines 140-147).          *)
C11_DeclarationErrors ==
    (Declared /\ Malformed) => (call.status # "ok" /\ objects = <<>>)

(***************************************************************************)
(* get_reshape_dim_queries (expansion_utils.py).  An ordered dictionary of *)
(* integers is the sequence of its <<key, value>> pairs in insertion       *)
(* order; vector shapes are functions over their keys.                     *)
(***************************************************************************)
Reshape(vs, tvs) == [vector_shapes |-> vs, target_vector_shape |-> tvs]

RECURSIVE Concat(_)
Concat(ss) == IF ss = <<>> THEN <<>> ELSE Head(ss) \o Concat(Tail(ss))

(* range with its end included *)
range_inclusive(begin, end) ==
    [i \in 1..(IF end >= begin THEN end - begin + 1 ELSE 0) |-> begin + i - 1]

(* list(range(begin, end)) *)
range(begin, end) == [i \in 1..(IF end > begin THEN end - begin ELSE 0) |-> begin + i - 1]

(* lines 256-266 with begin = value: consecutive ranges overlap *)
source_coordinates_unscaled(reshape, dim, value) ==
    LET s == reshape.vector_shapes[dim]
        t == reshape.target_vector_shape[dim]
    IN  IF s < t
        THEN <<value \div (t \div s)>>
        ELSE range(value, value + (s \div t))

(* lines 256-266: the source coordinates of one dimension *)
source_coordinates(reshape, dim, value) ==
    LET s == reshape.vector_shapes[dim]
        t == reshape.target_vector_shape[dim]
    IN  IF s < t
        THEN LET scale_factor == t \div s
             IN  <<value \div scale_factor>>
        ELSE LET scale_factor == s \div t
                 begin == value * scale_factor
             IN  range(begin, begin + scale_factor)

(* the exception lines 256-263 raise for this dimension, "" if none *)
reshape_dim_error(reshape, dim) ==
    IF dim \notin DOMAIN reshape.vector_shapes THEN "KeyError"
    ELSE IF reshape.vector_shapes[dim] < reshape.target_vector_shape[dim]
    THEN (IF reshape.vector_shapes[dim] = 0 THEN "ZeroDivisionError" ELSE "")
    ELSE (IF reshape.target_vector_shape[dim] = 0 THEN "ZeroDivisionError" ELSE "")

(* the loop of lines 253-266 from entry i on; acc is dim_combinations *)
RECURSIVE dim_combinations(_, _, _, _)
dim_combinations(reshape, dim_query, i, acc) ==
    IF i > Len(dim_query) THEN [status |-> "ok", combinations |-> acc]
    ELSE LET dim == dim_query[i][1]
             value == dim_query[i][2]
         IN  IF dim \notin DOMAIN reshape.target_vector_shape
             THEN dim_combinations(reshape, dim_query, i + 1, acc)
             ELSE IF reshape_dim_error(reshape, dim) # ""
             THEN [status |-> reshape_dim_error(reshape, dim), combinations |-> <<>>]
             ELSE dim_combinations(reshape, dim_query, i + 1,
                      Append(acc, <<dim, source_coordinates(reshape, dim, value)>>))

(* the product with the first list varying fastest *)
RECURSIVE product_first_fastest(_)
product_first_fastest(lists) ==
    IF lists = <<>> THEN << <<>> >>
    ELSE LET rest == product_first_fastest(Tail(lists))
             h == Head(lists)
         IN  Concat([j \in 1..Len(rest) |-> [i \in 1..Len(h) |-> <<h[i]>> \o rest[j]]])

(* itertools.product of the lists: the first list varies slowest *)
RECURSIVE product(_)
product(lists) ==
    IF lists = <<>> THEN << <<>> >>
    ELSE LET rest == product(Tail(lists))
             h == Head(lists)
         IN  Concat([i \in 1..Len(h) |-> [j \in 1..Len(rest) |-> <<h[i]>> \o rest[j]]])

keys(d) == [i \in DOMAIN d |-> d[i][1]]
values(d) == [i \in DOMAIN d |-> d[i][2]]
(* {dim: val for dim, val in zip(ks, combination)} *)
zip_dict(ks, combination) ==
    [i \in 1..(IF Len(ks) < Len(combination) THEN Len(ks) ELSE Len(combination)) |->
        <<ks[i], combination[i]>>]

(* line 269 zipping with the keys of metadata.dim_query *)
get_reshape_dim_queries_all_keys(reshape, dim_query) ==
    LET dc == dim_combinations(reshape, dim_query, 1, <<>>)
    IN  IF dc.status # "ok" THEN [status |-> dc.status, queries |-> <<>>]
        ELSE LET reshape_dim_combinations == product(values(dc.combinations))
             IN  [status |-> "ok",
                  queries |-> [c \in DOMAIN reshape_dim_combinations |->
                      zip_dict(keys(dim_query), reshape_dim_combinations[c])]]

get_reshape_dim_queries(reshape, dim_query) ==
    LET dc == dim_combinations(reshape, dim_query, 1, <<>>)
    IN  IF dc.status # "ok" THEN [status |-> dc.status, queries |-> <<>>]
        ELSE LET reshape_dim_combinations == product(values(dc.combinations))
             IN  [status |-> "ok",
                  queries |-> [c \in DOMAIN reshape_dim_combinations |->
                      zip_dict(keys(dc.combinations), reshape_dim_combinations[c])]]

(***************************************************************************)
(* Calls of get_reshape_dim_queries.                                       *)
(***************************************************************************)
MaxWidth == 4
MaxCoord == 3

QueryDims == {"M", "N"}
DimQueries ==
    {q \in SeqsUpTo(QueryDims \X (0..MaxCoord), Cardinality(QueryDims)) :
        \A i, j \in DOMAIN q : i # j => q[i][1] # q[j][1]}
Widths == PartialMaps(QueryDims, 1..MaxWidth)
(* vector shapes with a batch dimension (width 0) *)
BatchWidths == PartialMaps(QueryDims, {0, MaxWidth})
(* the reshapes of the docstring (lines 225-226) and of a 8-to-2 merge *)
ExampleReshapes ==
    {Reshape([d \in QueryDims |-> 4], [d \in QueryDims |-> IF d = "M" THEN 8 ELSE 2]),
     Reshape([d \in {"M"} |-> 8], [d \in {"M"} |-> 2])}
Reshapes ==
    {Reshape(vs, tvs) : vs \in Widths, tvs \in Widths}
    \cup {Reshape(vs, tvs) : vs \in BatchWidths, tvs \in BatchWidths}
    \cup ExampleReshapes

InitReshape ==
    /\ IdleCleanup
    /\ IdlePasses
    /\ IdleScaling
    /\ objects = <<>>
    /\ call = NoCall

(* get_reshape_dim_queries(reshape, metadata, dim_scaling, nodes_to_expand) *)
CallGetReshapeDimQueries ==
    /\ call = NoCall
    /\ \E reshape \in Reshapes, q \in DimQueries :
          LET r == get_reshape_dim_queries(reshape, q)
          IN  call' = [op |-> "get_reshape_dim_queries", reshape |-> reshape,
                       dim_query |-> q, status |-> r.status, result |-> r.queries]
    /\ UNCHANGED <<objects, constraints, node, subs, scaling, cleanupVars, passVars>>

NextReshape == CallGetReshapeDimQueries

SpecReshape == InitReshape /\ [][NextReshape]_vars

(***************************************************************************)
(* Properties of get_reshape_dim_queries.                                  *)
(***************************************************************************)
Queried == call.op = "get_reshape_dim_queries"
QueriesReturned == Queried /\ call.status = "ok"

SourceWidth(d) == call.reshape.vector_shapes[d]
TargetWidth(d) == call.reshape.target_vector_shape[d]
InTarget(p) == p[1] \in DOMAIN call.reshape.target_vector_shape
(* the entries of dim_query whose dimension is in target_vector_shape *)
Participating == SelectSeq(call.dim_query, InTarget)

(* the coordinates of dimension d over the returned queries *)
Required(d) ==
    {call.result[c][i][2] : c \in DOMAIN call.result,
                            i \in {j \in 1..Len(Participating) : Participating[j][1] = d}}

(* C12: for a dimension of dim_query in target_vector_shape, with s the    *)
(* reshape's vector width, t the target width and v the target coordinate, *)
(* the returned queries hold for it, when s < t, the single coordinate     *)
(* v // (t / s) and, when s > t, exactly the coordinates v*(s/t) up to     *)
(* v*(s/t) + (s/t) - 1 (the quotients are the integer quotients of lines   *)
(* 257-264).                                                               *)
C12_ReshapeCoordinates ==
    QueriesReturned =>
        \A i \in DOMAIN Participating :
            LET d == Participating[i][1]
                v == Participating[i][2]
                s == SourceWidth(d)
                t == TargetWidth(d)
            IN  /\ \A c \in DOMAIN call.result :
                      /\ Len(call.result[c]) = Len(Participating)
                      /\ call.result[c][i][1] = d
                /\ s < t => Required(d) = {v \div (t \div s)}
                /\ s > t => Required(d) = (v * (s \div t))..(v * (s \div t) + (s \div t) - 1)

C12_Witness ==
    /\ QueriesReturned
    /\ call.dim_query = << <<"M", 3>>, <<"N", 1>> >>
    /\ call.reshape = Reshape([d \in QueryDims |-> IF d = "M" THEN 2 ELSE 4],
                              [d \in QueryDims |-> IF d = "M" THEN 4 ELSE 2])
    /\ Required("M") = {1}
    /\ Required("N") = {2, 3}

(* the source coordinates get_reshape_dim_queries returns for the clone of *)
(* the called reshape at coordinate v of dimension d alone                 *)
SourceList(d, v) ==
    LET qs == get_reshape_dim_queries(call.reshape, << <<d, v>> >>).queries
    IN  [c \in DOMAIN qs |-> qs[c][1][2]]
SourceSet(d, v) == {SourceList(d, v)[c] : c \in DOMAIN SourceList(d, v)}
Merging(d) ==
    /\ d \in DOMAIN call.reshape.vector_shapes
    /\ TargetWidth(d) > 0
    /\ SourceWidth(d) > TargetWidth(d)
    /\ SourceWidth(d) % TargetWidth(d) = 0
MergeFactor(d) == SourceWidth(d) \div TargetWidth(d)

(* C13 as stated: with k = s / t, the target coordinates 0..k-1 map        *)
(* together to exactly the source coordinates 0..k-1, each exactly once.   *)
C13_Original ==
    QueriesReturned =>
        \A d \in DOMAIN call.reshape.target_vector_shape :
            Merging(d) =>
                LET k == MergeFactor(d)
                IN  /\ UNION {SourceSet(d, v) : v \in 0..(k - 1)} = 0..(k - 1)
                    /\ \A v, w \in 0..(k - 1) :
                          v # w => SourceSet(d, v) \cap SourceSet(d, w) = {}

(* C13: with k = s / t, every target coordinate v maps to the k source      *)
(* coordinates v*k .. v*k + k - 1, each once; distinct target coordinates  *)
(* map to disjoint ranges, and the target coordinates 0..n-1 together map  *)
(* to exactly the source coordinates 0..n*k-1 (the k target coordinates    *)
(* 0..k-1 to the k*k source coordinates 0..k*k-1), without gap or overlap. *)
C13_ReshapePartition ==
    QueriesReturned =>
        /\ \A i \in DOMAIN Participating :
              Required(Participating[i][1]) =
                  SourceSet(Participating[i][1], Participating[i][2])
        /\ \A d \in DOMAIN call.reshape.target_vector_shape :
            Merging(d) =>
                LET k == MergeFactor(d)
                IN  /\ \A v \in 0..MaxCoord :
                          /\ Len(SourceList(d, v)) = k
                          /\ Cardinality(SourceSet(d, v)) = k
                    /\ \A v, w \in 0..MaxCoord :
                          v # w => SourceSet(d, v) \cap SourceSet(d, w) = {}
                    /\ \A n \in 1..(MaxCoord + 1) :
                          UNION {SourceSet(d, v) : v \in 0..(n - 1)} = 0..(n * k - 1)

C13_Witness ==
    /\ QueriesReturned
    /\ call.reshape = Reshape([d \in {"M"} |-> 8], [d \in {"M"} |-> 2])
    /\ call.dim_query = << <<"M", 3>> >>
    /\ Required("M") = 12..15
    /\ UNION {SourceSet("M", v) : v \in 0..3} = 0..15

(* the source coordinates of the i-th participating dimension *)
SourceCoordinates(i) ==
    LET d == Participating[i][1]
        v == Participating[i][2]
        s == SourceWidth(d)
        t == TargetWidth(d)
    IN  IF s < t THEN {v \div (t \div s)}
        ELSE (v * (s \div t))..(v * (s \div t) + (s \div t) - 1)

RECURSIVE SizeProduct(_)
SizeProduct(i) ==
    IF i > Len(Participating) THEN 1
    ELSE Cardinality(SourceCoordinates(i)) * SizeProduct(i + 1)

(* query a comes before query b: at the first dimension where they differ, *)
(* a holds the smaller coordinate                                          *)
LexLess(a, b) ==
    \E i \in DOMAIN a :
        /\ a[i][2] < b[i][2]
        /\ \A j \in 1..(i - 1) : a[j][2] = b[j][2]

(* C14: the returned queries are the full cross product of the             *)
(* per-dimension source-coordinate sets: their number is the product of    *)
(* the set sizes, each assigns every participating dimension (in dim_query *)
(* order) one coordinate of its set, every combination is returned, none   *)
(* twice, and they are in lexicographic order, the last dimension varying  *)
(* fastest.                                                                *)
C14_CrossProduct ==
    QueriesReturned =>
        /\ Len(call.result) = SizeProduct(1)
        /\ \A c \in DOMAIN call.result :
              /\ keys(call.result[c]) = keys(Participating)
              /\ \A i \in DOMAIN Participating :
                    call.result[c][i][2] \in SourceCoordinates(i)
        /\ \A combination \in [DOMAIN Participating ->
                                  UNION {SourceCoordinates(i) : i \in DOMAIN Participating}] :
              (\A i \in DOMAIN Participating : combination[i] \in SourceCoordinates(i))
                  => \E c \in DOMAIN call.result : values(call.result[c]) = combination
        /\ \A b, c \in DOMAIN call.result :
              b < c => LexLess(call.result[b], call.result[c])

(* the docstring's reshape (target m=8, n=2; own m=4, n=4) at {m=3, n=1}   *)
C14_Witness ==
    /\ QueriesReturned
    /\ call.reshape = Reshape([d \in QueryDims |-> 4],
                              [d \in QueryDims |-> IF d = "M" THEN 8 ELSE 2])
    /\ call.dim_query = << <<"M", 3>>, <<"N", 1>> >>
    /\ call.result = << << <<"M", 1>>, <<"N", 2>> >>, << <<"M", 1>>, <<"N", 3>> >> >>

(***************************************************************************)
(* get_expanded_name (expansion_utils.py).  A Python string is the         *)
(* sequence of its characters.                                             *)
(***************************************************************************)
Digits == <<"0", "1", "2", "3", "4", "5", "6", "7", "8", "9">>

(* str(val) of an integer *)
RECURSIVE str_int(_)
str_int(n) ==
    IF n < 0 THEN <<"-">> \o str_int(-n)
    ELSE IF n < 10 THEN <<Digits[n + 1]>>
    ELSE str_int(n \div 10) \o <<Digits[(n % 10) + 1]>>

max_chars == 4

(* lines 190-192 with the test len(key_str) >= max_chars *)
key_str_from_four(key) ==
    IF Len(key) >= max_chars THEN SubSeq(key, 1, 4) \o <<"*">> ELSE key

(* lines 190-192: str(key), cut to its first four characters and "*" *)
key_str_of(key) ==
    IF Len(key) > max_chars THEN SubSeq(key, 1, 4) \o <<"*">> ELSE key

(* the operation classes get_expanded_name tells apart *)
NamedOp(name, class, address_space) ==
    [name |-> name, class |-> class, memory_address_space |-> address_space]

is_read_or_write(n) == n.class \in {"Read", "Write"}

(* lines 185-187 *)
shared_name(n) ==
    IF is_read_or_write(n) /\ n.memory_address_space = <<"SHARED_ADDRESS_SPACE">>
    THEN n.name \o <<"_", "s", "h", "a", "r", "e", "d">>
    ELSE n.name

(* the loop of lines 189-193 from entry i on *)
RECURSIVE append_dims(_, _, _)
append_dims(node_name, dims, i) ==
    IF i > Len(dims) THEN node_name
    ELSE append_dims(node_name \o <<"_">> \o key_str_of(dims[i][1]) \o <<":">>
                         \o str_int(dims[i][2]),
                     dims, i + 1)

get_expanded_name(n, dims) == append_dims(shared_name(n), dims, 1)

(***************************************************************************)
(* Calls of get_expanded_name.                                             *)
(***************************************************************************)
MaxNameDims == 2

NodeNames == {<<"r", "e", "a", "d">>, <<"m", "m", "a", "_", "1">>}
NamedOps ==
    {NamedOp(name, class, <<a>>) :
        name \in NodeNames, class \in {"Read", "Write"},
        a \in {"SHARED_ADDRESS_SPACE", "GLOBAL_ADDRESS_SPACE"}}
    \cup {NamedOp(name, "MMA", <<>>) : name \in NodeNames}
DimSymbols ==
    {<<"M">>, <<"A", "R", "G", "K">>, <<"B", "L", "O", "C", "K">>,
     <<"B", "L", "O", "C", "K", "_", "N">>}
NameValues == (0..MaxCoord) \cup {10, 12}
NameDims ==
    {d \in SeqsUpTo(DimSymbols \X NameValues, MaxNameDims) :
        \A i, j \in DOMAIN d : i # j => d[i][1] # d[j][1]}

InitName ==
    /\ IdleCleanup
    /\ IdlePasses
    /\ IdleScaling
    /\ objects = <<>>
    /\ call = NoCall

(* get_expanded_name(node, dims) *)
CallGetExpandedName ==
    /\ call = NoCall
    /\ \E n \in NamedOps, dims \in NameDims :
          call' = [op |-> "get_expanded_name", node |-> n, dims |-> dims,
                   result |-> get_expanded_name(n, dims)]
    /\ UNCHANGED <<objects, constraints, node, subs, scaling, cleanupVars, passVars>>

NextName == CallGetExpandedName

SpecName == InitName /\ [][NextName]_vars

(***************************************************************************)
(* Properties of get_expanded_name.                                        *)
(***************************************************************************)
Named == call.op = "get_expanded_name"
SharedAccess ==
    /\ call.node.class \in {"Read", "Write"}
    /\ call.node.memory_address_space = <<"SHARED_ADDRESS_SPACE">>
Shortened(key) ==
    IF Len(key) <= 4 THEN key ELSE <<key[1], key[2], key[3], key[4], "*">>
Suffix(i) == <<"_">> \o Shortened(call.dims[i][1]) \o <<":">> \o str_int(call.dims[i][2])
RECURSIVE Suffixes(_)
Suffixes(i) == IF i > Len(call.dims) THEN <<>> ELSE Suffix(i) \o Suffixes(i + 1)
IsPrefix(p, s) == Len(p) <= Len(s) /\ SubSeq(s, 1, Len(p)) = p

(* C15: the expanded name is the original name, then "_shared" exactly for *)
(* a Read or Write whose memory is in the shared address space, then one   *)
(* suffix _<dim>:<value> per entry of dims in order, a dimension symbol of *)
(* more than 4 characters being cut to its first 4 characters and "*".     *)
C15_ExpandedName ==
    Named =>
        /\ IsPrefix(call.node.name, call.result)
        /\ call.result =
              call.node.name
              \o (IF SharedAccess THEN <<"_", "s", "h", "a", "r", "e", "d">> ELSE <<>>)
              \o Suffixes(1)

C15_Witness ==
    /\ Named
    /\ call.node = NamedOp(<<"r", "e", "a", "d">>, "Read", <<"SHARED_ADDRESS_SPACE">>)
    /\ call.dims = << << <<"B", "L", "O", "C", "K", "_", "N">>, 12 >>,
                      << <<"A", "R", "G", "K">>, 0 >> >>
    /\ call.result = <<"r", "e", "a", "d", "_", "s", "h", "a", "r", "e", "d",
                       "_", "B", "L", "O", "C", "*", ":", "1", "2",
                       "_", "A", "R", "G", "K", ":", "0">>

(***************************************************************************)
(* compute_strides (expansion_utils.py).                                   *)
(***************************************************************************)
Reverse(s) == [i \in DOMAIN s |-> s[Len(s) + 1 - i]]

(* the loop of lines 203-205 over reversed(dim_scaling.keys()) from        *)
(* position i (counted from 0) on                                          *)
RECURSIVE fill_strides(_, _, _, _)
fill_strides(strides, stride, dim_scaling, i) ==
    IF i >= Len(dim_scaling) THEN strides
    ELSE LET dim == Reverse(dim_scaling)[i + 1]
         IN  fill_strides([strides EXCEPT ![i + 1] = stride], stride * dim[2],
                          dim_scaling, i + 1)

(* compute_strides returning strides instead of strides[::-1] *)
compute_strides_unreversed(dim_scaling) ==
    fill_strides([i \in 1..Len(dim_scaling) |-> 1], 1, dim_scaling, 0)

compute_strides(dim_scaling) ==
    Reverse(fill_strides([i \in 1..Len(dim_scaling) |-> 1], 1, dim_scaling, 0))

(***************************************************************************)
(* Calls of compute_strides on scaling maps with factors of at least 1.    *)
(***************************************************************************)
MaxFactor == 4
MaxStrideDims == 3

StrideDims == {"M", "N", "K", "B"}
DimScalings ==
    {d \in SeqsUpTo(StrideDims \X (1..MaxFactor), MaxStrideDims) :
        \A i, j \in DOMAIN d : i # j => d[i][1] # d[j][1]}

InitStrides ==
    /\ IdleCleanup
    /\ IdlePasses
    /\ IdleScaling
    /\ objects = <<>>
    /\ call = NoCall

(* compute_strides(dim_scaling) *)
CallComputeStrides ==
    /\ call = NoCall
    /\ \E ds \in DimScalings :
          call' = [op |-> "compute_strides", dim_scaling |-> ds,
                   result |-> compute_strides(ds)]
    /\ UNCHANGED <<objects, constraints, node, subs, scaling, cleanupVars, passVars>>

NextStrides == CallComputeStrides

SpecStrides == InitStrides /\ [][NextStrides]_vars

(***************************************************************************)
(* Properties of compute_strides.                                          *)
(***************************************************************************)
Strided == call.op = "compute_strides"
Factor(i) == call.dim_scaling[i][2]
RECURSIVE FactorsFrom(_)
(* the product of the factors of the dimensions i, i+1, ... *)
FactorsFrom(i) == IF i > Len(call.dim_scaling) THEN 1 ELSE Factor(i) * FactorsFrom(i + 1)
(* the coordinate tuples: coordinate i in [0, factor i) *)
Coordinates ==
    {c \in [DOMAIN call.dim_scaling -> 0..(MaxFactor - 1)] :
        \A i \in DOMAIN c : c[i] < Factor(i)}
RECURSIVE FlatFrom(_, _)
FlatFrom(c, i) ==
    IF i > Len(c) THEN 0 ELSE c[i] * call.result[i] + FlatFrom(c, i + 1)
Flat(c) == FlatFrom(c, 1)

(* C16: the strides are row-major over the scaling map in insertion order: *)
(* the last stride is 1 and every stride is the product of the factors of  *)
(* the later dimensions; the flat index sum(coordinate * stride) maps the  *)
(* coordinate tuples one-to-one onto 0 .. (product of all factors) - 1.    *)
C16_Strides ==
    Strided =>
        /\ Len(call.result) = Len(call.dim_scaling)
        /\ \A i \in DOMAIN call.result : call.result[i] = FactorsFrom(i + 1)
        /\ Len(call.result) > 0 => call.result[Len(call.result)] = 1
        /\ {Flat(c) : c \in Coordinates} = 0..(FactorsFrom(1) - 1)
        /\ Cardinality(Coordinates) = FactorsFrom(1)

C16_Witness ==
    /\ Strided
    /\ call.dim_scaling = << <<"M", 4>>, <<"N", 2>> >>
    /\ call.result = <<2, 1>>
    /\ {Flat(c) : c \in Coordinates} = 0..7

(***************************************************************************)
(* is_expandable (expansion_utils.py).  An argument is a value tagged with *)
(* its class; a list, tuple or str carries its elements.                   *)
(***************************************************************************)
Arg(class, elements) == [class |-> class, elements |-> elements]

SequenceClasses == {"list", "tuple", "str"}
PlaceholderClasses == {"Placeholder", "IterArg"}
CustomOpClasses == PlaceholderClasses \cup {"Read", "MMA"}
OtherClasses == {"int", "NoneType", "Node"}

Answer(b) == [status |-> "ok", result |-> b]
RecursionError == [status |-> "RecursionError", result |-> FALSE]

(* a character of a str is itself a str of length 1, whose first element   *)
(* is that same str: the recursion of line 174 never ends on it            *)
IsChar(arg) ==
    arg.class = "str" /\ Len(arg.elements) = 1 /\ arg.elements[1].class = "itself"

(* lines 176-178 without the IterArg exemption *)
is_expandable_op_no_iter_arg(arg) ==
    IF arg.class \in PlaceholderClasses THEN FALSE
    ELSE arg.class \in CustomOpClasses

(* lines 176-178: an argument that is not a Sequence *)
is_expandable_op(arg) ==
    IF arg.class \in PlaceholderClasses /\ arg.class # "IterArg" THEN FALSE
    ELSE arg.class \in CustomOpClasses

RECURSIVE is_expandable(_)
RECURSIVE all_expandable(_, _)
(* all(is_expandable(a) for a in arg), from element i on: it stops at the  *)
(* first element that is not expandable                                    *)
all_expandable(elements, i) ==
    IF i > Len(elements) THEN Answer(TRUE)
    ELSE LET a == is_expandable(elements[i])
         IN  IF a.status # "ok" THEN a
             ELSE IF ~a.result THEN Answer(FALSE)
             ELSE all_expandable(elements, i + 1)

is_expandable(arg) ==
    IF arg.class \in SequenceClasses
    THEN IF IsChar(arg) THEN RecursionError
         ELSE all_expandable(arg.elements, 1)
    ELSE Answer(is_expandable_op(arg))

(***************************************************************************)
(* Calls of is_expandable.                                                 *)
(***************************************************************************)
MaxArgs == 2

Ops == {Arg(c, <<>>) : c \in CustomOpClasses \cup OtherClasses}
Char == Arg("str", <<Arg("itself", <<>>)>>)
Strings == {Arg("str", <<>>), Arg("str", <<Char, Char>>), Char}
NestedLists ==
    {Arg(c, e) : c \in {"list"},
                 e \in SeqsUpTo({Arg("Read", <<>>), Arg("IterArg", <<>>),
                                 Arg("Placeholder", <<>>), Arg("int", <<>>)}, 2)}
Args ==
    Ops \cup Strings
    \cup {Arg(c, e) : c \in {"list", "tuple"},
                      e \in SeqsUpTo(Ops \cup Strings \cup NestedLists, MaxArgs)}

InitExpandable ==
    /\ IdleCleanup
    /\ IdlePasses
    /\ IdleScaling
    /\ objects = <<>>
    /\ call = NoCall

(* is_expandable(arg) *)
CallIsExpandable ==
    /\ call = NoCall
    /\ \E arg \in Args :
          LET a == is_expandable(arg)
          IN  call' = [op |-> "is_expandable", arg |-> arg,
                       status |-> a.status, result |-> a.result]
    /\ UNCHANGED <<objects, constraints, node, subs, scaling, cleanupVars, passVars>>

NextExpandable == CallIsExpandable

SpecExpandable == InitExpandable /\ [][NextExpandable]_vars

(***************************************************************************)
(* Properties of is_expandable.                                            *)
(***************************************************************************)
Answered == call.op = "is_expandable" /\ call.status = "ok"

RECURSIVE Expandable(_)
Expandable(v) ==
    IF v.class \in SequenceClasses
    THEN ~IsChar(v) /\ \A i \in DOMAIN v.elements : Expandable(v.elements[i])
    ELSE /\ v.class \in CustomOpClasses
         /\ v.class \in PlaceholderClasses => v.class = "IterArg"

(* C20: is_expandable(arg) is true exactly when arg is a CustomOp that is  *)
(* not a plain Placeholder (a Placeholder only if it is an IterArg), or a  *)
(* sequence whose elements are all expandable; a value that is neither a   *)
(* sequence nor a CustomOp is not expandable.                              *)
C20_Expandable ==
    Answered =>
        /\ call.result = Expandable(call.arg)
        /\ call.arg.class \notin SequenceClasses \cup CustomOpClasses => ~call.result
        /\ call.arg.class = "Placeholder" => ~call.result
        /\ call.arg.class = "IterArg" => call.result

C20_Witness ==
    /\ Answered
    /\ call.arg = Arg("tuple", <<Arg("IterArg", <<>>),
                                 Arg("list", <<Arg("Read", <<>>), Arg("IterArg", <<>>)>>)>>)
    /\ call.result

(***************************************************************************)
(* The cleanup passes (expansion_utils.py).  The graph is the sequence of  *)
(* its nodes in graph order; a node is named by its position.  A node has  *)
(* a class, its operand nodes (args), the _erased flag and the number of    *)
(* times it was erased (erasures).                                         *)
(***************************************************************************)
GraphNode(class, args) ==
    [class |-> class, args |-> args, erased |-> FALSE, erasures |-> 0]

(* custom.users: the nodes of the graph that take n as operand; erasing a  *)
(* node drops its arguments, so an erased node is no consumer              *)
users(g, n) ==
    {m \in DOMAIN g : ~g[m].erased /\ \E i \in DOMAIN g[m].args : g[m].args[i] = n}

(* get_inputs(custom.fx_node, None) *)
get_inputs(g, n) == g[n].args

(* custom.erase() / graph.erase_node(node) *)
erase(g, n) == [g EXCEPT ![n].erased = TRUE, ![n].erasures = @ + 1]

(* one iteration of the loop of lines 279-287 that reads the operands      *)
(* after the erasure, when the erased node has none left                   *)
visit_erase_first(g, q) ==
    LET custom == Head(q)
    IN  IF g[custom].erased THEN [graph |-> g, queue |-> Tail(q)]
        ELSE IF users(g, custom) = {}
        THEN [graph |-> erase(g, custom), queue |-> Tail(q)]
        ELSE [graph |-> g, queue |-> Tail(q) \o get_inputs(g, custom)]

(* one iteration of the loop without the test of lines 281-282 *)
visit_no_skip(g, q) ==
    LET custom == Head(q)
        enqueued == Tail(q) \o get_inputs(g, custom)
    IN  IF users(g, custom) = {}
        THEN [graph |-> erase(g, custom), queue |-> enqueued]
        ELSE [graph |-> g, queue |-> enqueued]

(* one iteration of the loop without the test of line 286 *)
visit_erase_used(g, q) ==
    LET custom == Head(q)
    IN  IF g[custom].erased THEN [graph |-> g, queue |-> Tail(q)]
        ELSE [graph |-> erase(g, custom), queue |-> Tail(q) \o get_inputs(g, custom)]

(* one iteration of the loop that puts a node that still has consumers     *)
(* back on the worklist instead of walking into its operands               *)
visit_requeue_used(g, q) ==
    LET custom == Head(q)
    IN  IF g[custom].erased THEN [graph |-> g, queue |-> Tail(q)]
        ELSE IF users(g, custom) = {}
        THEN [graph |-> erase(g, custom), queue |-> Tail(q) \o get_inputs(g, custom)]
        ELSE [graph |-> g, queue |-> Append(Tail(q), custom)]

(* one iteration of the loop of lines 279-287 *)
visit(g, q) ==
    LET custom == Head(q)
        popped == Tail(q)
    IN  IF g[custom].erased THEN [graph |-> g, queue |-> popped]
        ELSE LET inputs == get_inputs(g, custom)
                 enqueued == popped \o inputs
             IN  IF users(g, custom) = {}
                 THEN [graph |-> erase(g, custom), queue |-> enqueued]
                 ELSE [graph |-> g, queue |-> enqueued]

(* trace.walk(lambda x: isinstance(get_custom(x), class)): the nodes of    *)
(* the class that are in the graph, in graph order                         *)
walk(g, class) ==
    SelectSeq([n \in DOMAIN g |-> n], LAMBDA n : g[n].class = class /\ ~g[n].erased)

(* the loop of lines 294-296 leaving after the first found node *)
erase_unused_first(g, nodes, i) ==
    IF i > Len(nodes) THEN g
    ELSE IF users(g, nodes[i]) = {} THEN erase(g, nodes[i]) ELSE g

(* the loops of lines 294-296 and 304-307 from the i-th found node on *)
RECURSIVE erase_unused(_, _, _)
erase_unused(g, nodes, i) ==
    IF i > Len(nodes) THEN g
    ELSE erase_unused(IF users(g, nodes[i]) = {} THEN erase(g, nodes[i]) ELSE g,
                      nodes, i + 1)

remove_unused_registers(g) == erase_unused(g, walk(g, "NewRegister"), 1)
remove_unused_iter_args(g) == erase_unused(g, walk(g, "IterArg"), 1)

(***************************************************************************)
(* The graphs: acyclic, every operand before its consumers in graph order; *)
(* NewRegister and IterArg nodes take no operand and come first in graph   *)
(* order.                                                                  *)
(***************************************************************************)
MaxNodes == 4
MaxOperands == 2

Increasing(s) == \A i, j \in DOMAIN s : i < j => s[i] < s[j]
ArgLists(n) == {a \in SeqsUpTo(1..(n - 1), MaxOperands) : Increasing(a)}
NodesAt(n) ==
    {GraphNode("Op", a) : a \in ArgLists(n)}
    \cup (IF n <= 2 THEN {GraphNode("NewRegister", <<>>), GraphNode("IterArg", <<>>)}
          ELSE {})
Graphs == {g \in [1..MaxNodes -> UNION {NodesAt(n) : n \in 1..MaxNodes}] :
              \A n \in 1..MaxNodes : g[n] \in NodesAt(n)}
(* no leaf, one leaf or two different leaves, in either order *)
LeafLists ==
    {<<>>} \cup {<<a>> : a \in 1..MaxNodes}
    \cup {l \in (1..MaxNodes) \X (1..MaxNodes) : l[1] # l[2]}

InitCleanup ==
    /\ IdleScaling
    /\ IdlePasses
    /\ objects = <<>>
    /\ graph \in Graphs
    /\ leaf_nodes \in LeafLists
    /\ queue = leaf_nodes
    /\ call = [op |-> "remove_original_nodes", passed |-> leaf_nodes]
    /\ pc = "remove_original_nodes"

(* one iteration of the while loop of remove_original_nodes; queue is the  *)
(* caller's list itself (line 278 copies nothing), so leaf_nodes changes   *)
(* with it; call.passed keeps the leaf nodes as they were passed           *)
Visit ==
    /\ pc = "remove_original_nodes"
    /\ queue # <<>>
    /\ LET r == visit(graph, queue)
       IN  /\ graph' = r.graph
           /\ queue' = r.queue
           /\ leaf_nodes' = r.queue
           /\ call' = [op |-> "visit", passed |-> call.passed, custom |-> Head(queue),
                       erased_before |-> graph[Head(queue)].erased]
    /\ UNCHANGED <<scalingVars, objects, pc, passVars>>

(* remove_original_nodes returns (the worklist is empty) and               *)
(* remove_unused_registers(trace) runs                                     *)
RemoveUnusedRegisters ==
    /\ pc = "remove_original_nodes"
    /\ queue = <<>>
    /\ graph' = remove_unused_registers(graph)
    /\ pc' = "remove_unused_registers"
    /\ call' = [op |-> "remove_unused_registers", passed |-> call.passed]
    /\ UNCHANGED <<scalingVars, objects, leaf_nodes, queue, passVars>>

(* remove_unused_iter_args(trace) *)
RemoveUnusedIterArgs ==
    /\ pc = "remove_unused_registers"
    /\ graph' = remove_unused_iter_args(graph)
    /\ pc' = "remove_unused_iter_args"
    /\ call' = [op |-> "remove_unused_iter_args", passed |-> call.passed]
    /\ UNCHANGED <<scalingVars, objects, leaf_nodes, queue, passVars>>

NextCleanup == Visit \/ RemoveUnusedRegisters \/ RemoveUnusedIterArgs

SpecCleanup == InitCleanup /\ [][NextCleanup]_vars

(* the while loop of lines 279-287 runs on while the worklist is not empty: *)
(* the pass is one synchronous call, nothing suspends it                   *)
FairSpecCleanup == SpecCleanup /\ WF_vars(Visit)

(***************************************************************************)
(* Properties of the cleanup passes.                                       *)
(***************************************************************************)
Walking == pc = "remove_original_nodes" /\ queue # <<>>
WalkDone == pc # "idle" /\ ~Walking
CleanupDone == pc = "remove_unused_iter_args"

Operands(n) == {graph[n].args[i] : i \in DOMAIN graph[n].args}
(* the nodes that take n as operand, erased or not *)
Consumers(n) == {m \in DOMAIN graph : n \in Operands(m)}
RECURSIVE Closure(_, _)
Closure(S, k) ==
    IF k = 0 THEN S ELSE Closure(S \cup UNION {Operands(n) : n \in S}, k - 1)
(* the nodes reachable from the leaf nodes through operand edges *)
Reachable == Closure({call.passed[i] : i \in DOMAIN call.passed}, Len(graph))
InGraph(n) == ~graph[n].erased

(* C17: once remove_original_nodes has returned, every node reachable from *)
(* the leaf nodes it was passed through operand edges whose consumers have *)
(* all been erased (a node without consumers included) is erased, whatever *)
(* the shape of the acyclic graph.                                         *)
C17_OriginalsErased ==
    WalkDone =>
        \A n \in Reachable :
            (\A m \in Consumers(n) : graph[m].erased) => graph[n].erased

(* the diamond 4 -> {2, 3} -> 1 walked from its top *)
C17_Witness ==
    /\ WalkDone
    /\ call.passed = <<4>>
    /\ leaf_nodes = <<>>
    /\ graph[4].args = <<2, 3>> /\ graph[3].args = <<1>> /\ graph[2].args = <<1>>
    /\ \A n \in DOMAIN graph : graph[n].erased

(* C18: after remove_original_nodes, remove_unused_registers and           *)
(* remove_unused_iter_args have run in this order, no NewRegister node and *)
(* no IterArg node of the graph has zero consumers.                        *)
C18_NoUnusedRegisters ==
    CleanupDone =>
        \A n \in DOMAIN graph :
            (InGraph(n) /\ graph[n].class \in {"NewRegister", "IterArg"})
                => users(graph, n) # {}

(* an unused register and an unused iter arg that the walk did not reach,  *)
(* next to an operation that is kept                                       *)
C18_Witness ==
    /\ CleanupDone
    /\ graph[1].class = "NewRegister" /\ graph[2].class = "IterArg"
    /\ graph[1].erased /\ graph[2].erased
    /\ Reachable \cap {1, 2} = {}
    /\ \E n \in DOMAIN graph : InGraph(n)

(* C19 as stated: a visit enqueues the operands of the visited node        *)
(* whatever its state, already erased included.                            *)
C19_Original ==
    [][Walking => queue' = Tail(queue) \o graph[Head(queue)].args]_vars

(* C19: a visit of a node that is not erased enqueues its operands whether *)
(* the node still has consumers or is erased at this visit; a visit of a   *)
(* node that was erased before only takes it off the worklist.             *)
C19_WalkFrontier ==
    [][Walking =>
          LET custom == Head(queue)
          IN  IF graph[custom].erased
              THEN queue' = Tail(queue) /\ graph' = graph
              ELSE /\ queue' = Tail(queue) \o graph[custom].args
                   /\ graph'[custom].erased <=> users(graph, custom) = {}]_vars

(* an erased node with an operand has been visited again *)
C19_Witness ==
    /\ call.op = "visit"
    /\ call.erased_before
    /\ graph[call.custom].args # <<>>
    /\ \E n \in Operands(call.custom) : InGraph(n)

(* C22: during the walk of remove_original_nodes every erased node has been *)
(* erased exactly once and has no consumer left in the graph, and a visit  *)
(* erases no node but the visited one, and that one only when it is not    *)
(* already erased and none of its consumers is left.                       *)
C22_EraseOnlyUnused ==
    /\ [](pc = "remove_original_nodes" =>
            \A n \in DOMAIN graph :
                /\ graph[n].erasures = (IF graph[n].erased THEN 1 ELSE 0)
                /\ graph[n].erased => \A m \in Consumers(n) : graph[m].erased)
    /\ [][Walking =>
            \A n \in DOMAIN graph :
                graph'[n] # graph[n] =>
                    /\ n = Head(queue)
                    /\ ~graph[n].erased
                    /\ \A m \in Consumers(n) : graph[m].erased
                    /\ graph'[n] = [graph[n] EXCEPT !.erased = TRUE, !.erasures = 1]]_vars

(* a visited node that still has a consumer is kept while another node,    *)
(* whose consumers are all erased, has been erased                         *)
C22_Witness ==
    /\ pc = "remove_original_nodes"
    /\ call.op = "visit"
    /\ InGraph(call.custom)
    /\ users(graph, call.custom) # {}
    /\ \E n \in DOMAIN graph : graph[n].erased /\ Consumers(n) # {}

(* C24: on every acyclic graph and every list of leaf nodes the worklist   *)
(* of remove_original_nodes eventually becomes empty.                      *)
C24_WalkTerminates == <>(pc = "remove_original_nodes" /\ queue = <<>>)

(* the worklist has run empty after the visit of a node that was enqueued  *)
(* again after its erasure (an operand shared by several consumers)        *)
C24_Witness ==
    /\ pc = "remove_original_nodes"
    /\ queue = <<>>
    /\ call.op = "visit"
    /\ call.erased_before
    /\ Cardinality(Consumers(call.custom)) > 1

(***************************************************************************)
(* Equal widths and dimensions outside target_vector_shape                 *)
(* (get_reshape_dim_queries).                                              *)
(***************************************************************************)
(* the dimensions of dim_query that are not in target_vector_shape *)
Absent == {call.dim_query[i][1] : i \in DOMAIN call.dim_query}
              \ DOMAIN call.reshape.target_vector_shape
QueryKeys(c) == {call.result[c][i][1] : i \in DOMAIN call.result[c]}
(* dim_query with another coordinate for the dimensions outside            *)
(* target_vector_shape                                                     *)
Moved(v) ==
    [i \in DOMAIN call.dim_query |->
        IF call.dim_query[i][1] \in Absent THEN <<call.dim_query[i][1], v>>
        ELSE call.dim_query[i]]

(* C25: in the queries get_reshape_dim_queries returns, a dimension whose   *)
(* vector width equals its target width holds exactly the target           *)
(* coordinate, so that equal widths throughout give the one query of the   *)
(* participating coordinates; a dimension of dim_query that is not in      *)
(* target_vector_shape is no key of a returned query, and neither its      *)
(* presence nor its coordinate changes the result.                         *)
C25_EqualWidths ==
    QueriesReturned =>
        /\ \A i \in DOMAIN Participating :
              LET d == Participating[i][1]
                  v == Participating[i][2]
              IN  SourceWidth(d) = TargetWidth(d) =>
                      /\ Required(d) = {v}
                      /\ \A c \in DOMAIN call.result : call.result[c][i] = <<d, v>>
        /\ (\A i \in DOMAIN Participating :
                SourceWidth(Participating[i][1]) = TargetWidth(Participating[i][1]))
              => call.result = <<Participating>>
        /\ \A c \in DOMAIN call.result : QueryKeys(c) \cap Absent = {}
        /\ call.result = get_reshape_dim_queries(call.reshape, Participating).queries
        /\ \A v \in 0..MaxCoord :
              call.result = get_reshape_dim_queries(call.reshape, Moved(v)).queries

(* widths 4 and 4 on M, N asked for but not in target_vector_shape *)
C25_Witness ==
    /\ QueriesReturned
    /\ call.dim_query = << <<"N", 2>>, <<"M", 3>> >>
    /\ call.reshape = Reshape([d \in QueryDims |-> MaxWidth], [d \in {"M"} |-> MaxWidth])
    /\ call.result = << << <<"M", 3>> >> >>

(***************************************************************************)
(* The pass pipeline of a compilation (wave.py).  A pass is named by the   *)
(* function it applies; the trace is the sequence of its nodes, of which   *)
(* create_induction_vars reads the class and the axis.                     *)
(***************************************************************************)
TraceNode(class, axis) ==
    [class |-> class, axis |-> axis, erased |-> FALSE, count |-> <<>>]
Options(level) == [optimization_level |-> level]

(* self.tiling_constraints (lines 231-236): the positions in                *)
(* self.constraints of the Tiling constraints                              *)
tiling_constraints(self) ==
    SelectSeq([i \in DOMAIN self.constraints |-> i],
              LAMBDA i : self.constraints[i].kind = "Tiling")

(* self.workgroup_constraints (lines 223-228), self.wave_constraints       *)
(* (lines 239-244) and self.symbolic_constraints (lines 263-268), as       *)
(* positions in self.constraints                                           *)
workgroup_constraints(self) ==
    SelectSeq([i \in DOMAIN self.constraints |-> i],
              LAMBDA i : self.constraints[i].kind = "Workgroup")
wave_constraints(self) ==
    SelectSeq([i \in DOMAIN self.constraints |-> i],
              LAMBDA i : self.constraints[i].kind = "Wave")
symbolic_constraints(self) ==
    SelectSeq([i \in DOMAIN self.constraints |-> i],
              LAMBDA i : self.constraints[i].kind = "SymbolicAlias")

(* tkl.IndexSymbol("$ARG" + str(custom.axis)) *)
induction_symbol(axis) == <<"$ARG", axis>>

(* lines 311-314 for one reduction: from the j-th Tiling constraint on *)
RECURSIVE associate(_, _, _, _)
associate(self, tiling, j, axis) ==
    IF j > Len(tiling) THEN self
    ELSE associate(
             IF self.constraints[tiling[j]].dim = axis
             THEN [self EXCEPT !.induction_var[tiling[j]] = <<induction_symbol(axis)>>]
             ELSE self,
             tiling, j + 1, axis)

(* the loop of lines 307-314 from the i-th reduction node on *)
RECURSIVE induction_vars_from(_, _, _, _)
induction_vars_from(self, tr, reduction_nodes, i) ==
    IF i > Len(reduction_nodes) THEN self
    ELSE LET custom == reduction_nodes[i]
             axis == tr[custom].axis
             bound == [self EXCEPT !.induction_vars =
                          Put(self.induction_vars, custom, induction_symbol(axis))]
         IN  induction_vars_from(associate(bound, tiling_constraints(bound), 1, axis),
                                 tr, reduction_nodes, i + 1)

(* LaunchableWave.create_induction_vars(trace) *)
create_induction_vars(self, tr) ==
    induction_vars_from(self, tr, walk(tr, "Iterate"), 1)

(***************************************************************************)
(* initialize_wave_constraints.  A Wave constraint is read through its     *)
(* attributes workgroup_dim and waves_per_block (lines 335-336);           *)
(* set_wave_id_from_hardware_and_workgroup_constraint is modelled from its *)
(* specification: it writes the wave id along the workgroup dimension of   *)
(* the Workgroup constraint into the Wave constraint.                      *)
(***************************************************************************)
(* lines 326-330 for the Wave constraint at position w, from the j-th      *)
(* Workgroup constraint on                                                 *)
RECURSIVE set_wave_id(_, _, _, _)
set_wave_id(self, w, workgroups, j) ==
    IF j > Len(workgroups) THEN self
    ELSE set_wave_id(
             IF self.constraints[w].dim = self.constraints[workgroups[j]].dim
             THEN [self EXCEPT !.wave_id[w] =
                       <<self.constraints[workgroups[j]].workgroup_dim>>]
             ELSE self,
             w, workgroups, j + 1)

(* the loop of lines 325-330 from the i-th Wave constraint on *)
RECURSIVE set_wave_ids(_, _, _)
set_wave_ids(self, waves, i) ==
    IF i > Len(waves) THEN self
    ELSE set_wave_ids(set_wave_id(self, waves[i], workgroup_constraints(self), 1),
                      waves, i + 1)

(* the loop of lines 334-336 from the i-th Wave constraint on *)
RECURSIVE count_waves(_, _, _, _)
count_waves(self, waves, i, waves_per_block) ==
    IF i > Len(waves) THEN waves_per_block
    ELSE count_waves(self, waves, i + 1,
             [waves_per_block EXCEPT ![self.constraints[waves[i]].workgroup_dim + 1] =
                 self.constraints[waves[i]].waves_per_block[1]])

(* LaunchableWave.initialize_wave_constraints: line 324 raises IndexError  *)
(* without a Hardware constraint; lines 332-338 fill in the waves_per_block *)
(* the first Hardware constraint was declared without                      *)
initialize_wave_constraints(self) ==
    IF hardware_constraints(self.constraints) = <<>>
    THEN [status |-> "IndexError", self |-> self]
    ELSE LET h == CHOOSE i \in DOMAIN self.constraints :
                      /\ self.constraints[i].kind = "Hardware"
                      /\ \A j \in 1..(i - 1) : self.constraints[j].kind # "Hardware"
             identified == set_wave_ids(self, wave_constraints(self), 1)
         IN  [status |-> "ok",
              self |-> IF self.constraints[h].waves_per_block = <<>>
                       THEN [identified EXCEPT !.constraints[h].waves_per_block =
                                count_waves(identified, wave_constraints(identified), 1,
                                            <<1, 1, 1>>)]
                       ELSE identified]

(***************************************************************************)
(* initialize_symbolic_constraints.  SymbolicAlias is declared outside     *)
(* this file and is modelled from its specification: an alias holds a      *)
(* source and a target dimension and a function from the target's tile     *)
(* size to the source's; create_new_constraints gives, for each constraint *)
(* of the list on the target dimension, a constraint of the same class on  *)
(* the source dimension with the converted tile size and the attributes of *)
(* the original.                                                           *)
(***************************************************************************)
SymbolicAlias(source, target, fn) ==
    [kind |-> "SymbolicAlias", source |-> source, target |-> target,
     source_to_target |-> fn]

(* alias.source_to_target(x) for the functions of the aliases,             *)
(* lambda x: x and lambda x: x / 2, on a tile size or a dimension          *)
source_to_target(alias, x) ==
    CASE alias.source_to_target = "half" /\ x = "BLOCK_K" -> "BLOCK_K/2"
      [] alias.source_to_target = "half" /\ x = "BLOCK_K/2" -> "BLOCK_K/4"
      [] alias.source_to_target = "half" /\ x = "BLOCK_M" -> "BLOCK_M/2"
      [] alias.source_to_target = "half" /\ x = "K" -> "K/2"
      [] OTHER -> x

(* an expression of the compilations is a symbol or a symbol divided by 2  *)
(* or 4                                                                    *)
symbol_of(e) ==
    CASE e = "K/2" -> "K"
      [] e \in {"BLOCK_K/2", "BLOCK_K/4"} -> "BLOCK_K"
      [] e = "BLOCK_M/2" -> "BLOCK_M"
      [] OTHER -> e
divisor_of(e) ==
    CASE e \in {"K/2", "BLOCK_K/2", "BLOCK_M/2"} -> 2
      [] e = "BLOCK_K/4" -> 4
      [] OTHER -> 1

(* subs_idxc(e) when it is a number (is_number), for values the divisor    *)
(* divides; <<>> when the symbol of e has no value in idxc.subs            *)
subs_idxc(e, sb) ==
    IF symbol_of(e) \in DOMAIN sb THEN <<sb[symbol_of(e)] \div divisor_of(e)>> ELSE <<>>

(* idxc._bind_symbol(sym, value) *)
_bind_symbol(sb, sym, value) == Put(sb, sym, value)

(* symbolic_constraint.create_new_constraints(the constraints at the given *)
(* positions): each new constraint with its induction_var and wave_id      *)
create_new_constraints(alias, self, positions) ==
    LET on_target == SelectSeq(positions, LAMBDA p : self.constraints[p].dim = alias.target)
    IN  [i \in DOMAIN on_target |->
            [constraint |-> [self.constraints[on_target[i]] EXCEPT
                                !.dim = alias.source,
                                !.tile_size = source_to_target(alias, @)],
             induction_var |-> self.induction_var[on_target[i]],
             wave_id |-> self.wave_id[on_target[i]]]]

(* the loop of lines 406-415 for one of the three lists, from the i-th     *)
(* symbolic constraint on                                                  *)
RECURSIVE new_constraints(_, _, _, _)
new_constraints(self, aliases, i, positions) ==
    IF i > Len(aliases) THEN <<>>
    ELSE create_new_constraints(self.constraints[aliases[i]], self, positions)
         \o new_constraints(self, aliases, i + 1, positions)

(* list.remove(x): the list without its first element equal to x *)
remove(list, x) ==
    LET k == CHOOSE i \in DOMAIN list : list[i] = x /\ \A j \in 1..(i - 1) : list[j] # x
    IN  SubSeq(list, 1, k - 1) \o SubSeq(list, k + 1, Len(list))

(* lines 418-423 for one wave constraint, from the j-th new Workgroup      *)
(* constraint on; remove raises ValueError when a second Workgroup         *)
(* constraint matches and no equal element is left                         *)
RECURSIVE remove_if_same_tile(_, _, _, _)
remove_if_same_tile(new_wave, wave_constraint, new_wg, j) ==
    IF j > Len(new_wg) THEN [status |-> "ok", list |-> new_wave]
    ELSE IF /\ wave_constraint.constraint.dim = new_wg[j].constraint.dim
            /\ wave_constraint.constraint.tile_size = new_wg[j].constraint.tile_size
    THEN IF \E i \in DOMAIN new_wave : new_wave[i] = wave_constraint
         THEN remove_if_same_tile(remove(new_wave, wave_constraint), wave_constraint,
                                  new_wg, j + 1)
         ELSE [status |-> "ValueError", list |-> new_wave]
    ELSE remove_if_same_tile(new_wave, wave_constraint, new_wg, j + 1)

(* the loop of lines 417-423: the iteration goes by position over the list *)
(* it removes from, so the element after a removed one is passed over      *)
RECURSIVE remove_same_tile(_, _, _)
remove_same_tile(new_wave, new_wg, i) ==
    IF i > Len(new_wave) THEN [status |-> "ok", list |-> new_wave]
    ELSE LET r == remove_if_same_tile(new_wave, new_wave[i], new_wg, 1)
         IN  IF r.status # "ok" THEN r ELSE remove_same_tile(r.list, new_wg, i + 1)

(* the loop of lines 428-433 from the i-th symbolic constraint on: the     *)
(* source of an alias whose target has a value is bound to the converted   *)
(* value                                                                   *)
RECURSIVE bind_sources(_, _, _, _)
bind_sources(self, aliases, i, sb) ==
    IF i > Len(aliases) THEN sb
    ELSE LET constraint == self.constraints[aliases[i]]
         IN  bind_sources(self, aliases, i + 1,
                 IF subs_idxc(constraint.target, sb) # <<>>
                 THEN _bind_symbol(sb, constraint.source,
                          subs_idxc(source_to_target(constraint, constraint.target), sb)[1])
                 ELSE sb)

(* LaunchableWave.initialize_symbolic_constraints; sb is idxc.subs *)
initialize_symbolic_constraints(self, sb) ==
    LET aliases == symbolic_constraints(self)
        new_wg_constraints == new_constraints(self, aliases, 1, workgroup_constraints(self))
        created == new_constraints(self, aliases, 1, wave_constraints(self))
        new_tiling_constraints == new_constraints(self, aliases, 1, tiling_constraints(self))
        kept == remove_same_tile(created, new_wg_constraints, 1)
        added == new_wg_constraints \o kept.list \o new_tiling_constraints
    IN  IF kept.status # "ok" THEN [status |-> kept.status, self |-> self, subs |-> sb]
        ELSE [status |-> "ok",
              self |-> [self EXCEPT
                  !.constraints = @ \o [i \in DOMAIN added |-> added[i].constraint],
                  !.induction_var = @ \o [i \in DOMAIN added |-> added[i].induction_var],
                  !.wave_id = @ \o [i \in DOMAIN added |-> added[i].wave_id]],
              subs |-> bind_sources(self, aliases, 1, sb)]

(* the list of lines 524-551 with expand_graph ahead of set_node_indices *)
build_initial_pass_pipeline_expand_early(options) ==
    <<"debug_log_hoist", "initialize_iter_args", "create_induction_vars",
      "initialize_reductions", "finalize_indices", "substitute_vector_shapes",
      "add_get_results", "infer_types", "debug_log_write_replace",
      "promote_placeholders", "expand_graph", "set_node_indices",
      "reorder_workgroups", "set_post_expansion_indices",
      "remove_chained_getresult">>

(* LaunchableWave.build_initial_pass_pipeline: the list of lines 524-551 *)
build_initial_pass_pipeline(options) ==
    <<"debug_log_hoist", "initialize_iter_args", "create_induction_vars",
      "initialize_reductions", "finalize_indices", "substitute_vector_shapes",
      "add_get_results", "infer_types", "debug_log_write_replace",
      "promote_placeholders", "set_node_indices", "reorder_workgroups",
      "expand_graph", "set_post_expansion_indices", "remove_chained_getresult">>

(* the passes lines 603-667 add to the initial pipeline *)
later_passes(options) ==
    <<"decompose_vmma_ops", "decompose_dot_mma">>
    \o (IF options.optimization_level # 0
        THEN <<"hoist_loop_invariant_ops", "gather_to_shared", "in_thread_transpose",
               "global_to_shared_gathers", "minimize_global_loads">>
        ELSE <<>>)
    \o <<"apply_shared_memory_indexing_corrections">>
    \o <<"partition_ops_with_gpr_offsets", "partition_strided_operators",
         "remove_chained_extractslice">>
    \o <<"decompose_reduce_ops", "decompose_scan_ops">>
    \o <<"schedule_graph">>
    \o (IF options.optimization_level # 0
        THEN <<"schedule_reordering", "minimize_shared_allocs">>
        ELSE <<>>)
    \o <<"add_shared_memory_barriers", "compute_shared_memory_usage",
         "generate_bounds_exprs">>

(* tiling_constraint.count resolved by subs_idxc: the number of tiles      *)
(* ceiling(dim / tile_size) when both have a value, else the unresolved    *)
(* expression, named by its dimension and tile size                        *)
count(constraint, sb) ==
    [dim |-> constraint.dim, tile_size |-> constraint.tile_size,
     value |-> IF subs_idxc(constraint.dim, sb) # <<>>
                  /\ subs_idxc(constraint.tile_size, sb) # <<>>
                  /\ subs_idxc(constraint.tile_size, sb) # <<0>>
               THEN <<ceildiv(subs_idxc(constraint.dim, sb)[1],
                              subs_idxc(constraint.tile_size, sb)[1])>>
               ELSE <<>>]

(* lines 348-350 for one reduction: from the j-th Tiling constraint on *)
RECURSIVE initialize_reduction(_, _, _, _, _, _)
initialize_reduction(self, tr, reduction, tiling, j, sb) ==
    IF j > Len(tiling) THEN tr
    ELSE initialize_reduction(self,
             IF self.constraints[tiling[j]].dim = tr[reduction].axis
             THEN [tr EXCEPT ![reduction].count = <<count(self.constraints[tiling[j]], sb)>>]
             ELSE tr,
             reduction, tiling, j + 1, sb)

(* the loop of lines 347-350 from the i-th reduction node on *)
RECURSIVE initialize_reductions_from(_, _, _, _, _)
initialize_reductions_from(self, tr, reduction_nodes, i, sb) ==
    IF i > Len(reduction_nodes) THEN tr
    ELSE initialize_reductions_from(
             self,
             initialize_reduction(self, tr, reduction_nodes[i], tiling_constraints(self), 1, sb),
             reduction_nodes, i + 1, sb)

(* LaunchableWave.initialize_reductions(trace) *)
initialize_reductions(self, tr, sb) ==
    initialize_reductions_from(self, tr, walk(tr, "Iterate"), 1, sb)

(* the outcome of a call into code outside this file *)
foreign(raises) == IF raises THEN "Exception" ELSE "ok"

(* the closure of lines 521-522: self.hardware_constraints[0] raises        *)
(* IndexError when self.constraints holds no Hardware constraint;          *)
(* subs_vector_shapes is declared outside this file                        *)
substitute_vector_shapes(self, raises) ==
    IF hardware_constraints(self.constraints) = <<>> THEN "IndexError" ELSE foreign(raises)

(* expand_graph(trace, constraints), from its specification: it resolves   *)
(* the scaling of the nodes of the trace that have vector shapes with      *)
(* get_dim_scaling, which then raises ValueError (expansion_utils.py,      *)
(* lines 63-69) unless the constraints hold exactly one Hardware           *)
(* constraint; whether a node has vector shapes is not part of the trace   *)
(* of the model, so the error is one of the outcomes                       *)
expand_graph(self, tr, raises) ==
    IF raises /\ tr # <<>> /\ hardware_constraint_error(self.constraints) THEN "ValueError"
    ELSE foreign(raises)

(* try_apply_pass(p, trace, ...): the pass runs and, when it returns, its  *)
(* time is recorded.  create_induction_vars and initialize_reductions are  *)
(* modelled by their effect, substitute_vector_shapes and expand_graph by  *)
(* the errors they raise on the constraints; a pass declared outside this  *)
(* file returns or raises, as raises says                                  *)
try_apply_pass(p, self, tr, sb, raises) ==
    CASE p = "create_induction_vars" ->
            [status |-> "ok", self |-> create_induction_vars(self, tr), trace |-> tr]
      [] p = "initialize_reductions" ->
            [status |-> "ok", self |-> self, trace |-> initialize_reductions(self, tr, sb)]
      [] p = "substitute_vector_shapes" ->
            [status |-> substitute_vector_shapes(self, raises), self |-> self, trace |-> tr]
      [] p = "expand_graph" ->
            [status |-> expand_graph(self, tr, raises), self |-> self, trace |-> tr]
      [] OTHER -> [status |-> foreign(raises), self |-> self, trace |-> tr]

(***************************************************************************)
(* Compilations: the traced kernel, the constraints and the options.       *)
(***************************************************************************)
MaxTraced == 2

TracedNodes == {TraceNode("Iterate", "M"), TraceNode("Iterate", "K"), TraceNode("Read", "")}
Traces == SeqsUpTo(TracedNodes, MaxTraced)
(* a Hardware constraint declared without waves_per_block *)
HW_unset == HardwareConstraint(<<>>)
(* Wave constraints on K, two and one wave along workgroup dimension 1 *)
WV_K == [WaveConstraint("K", "BLOCK_K/2") EXCEPT !.workgroup_dim = 1, !.waves_per_block = <<2>>]
WV_K1 == [WaveConstraint("K", "BLOCK_K") EXCEPT !.workgroup_dim = 1, !.waves_per_block = <<1>>]
(* M follows K, with the tile size of K or half of it *)
A_same == SymbolicAlias("M", "K", "same")
A_half == SymbolicAlias("M", "K", "half")
(* constraint lists with aliases: a Tiling constraint alone; a Wave        *)
(* constraint of the tile size of its Workgroup constraint, and of half of *)
(* it; two Workgroup constraints on the target; two aliases; a Wave        *)
(* constraint without a Workgroup constraint; no Hardware constraint       *)
AliasedConstraints ==
    {<<HW, TL_K, A_same>>,
     <<HW, WG_K, WV_K1, A_same>>,
     <<HW_unset, WG_K, WV_K, A_half>>,
     <<HW, WG_K, WG_K, WV_K1, A_same>>,
     <<HW, WG_K, WV_K1, WV_K, A_same, A_half>>,
     <<HW_unset, WV_K1, TL_K, A_half>>,
     <<WG_K, WV_K1, A_same, A_same>>}
(* lists with Tiling constraints on two dimensions *)
TiledConstraints ==
    {<<TL_M>>, <<HW, TL_M>>, <<HW, TL_M, TL_K>>, <<HW, TL_K, TL_M, TL_K>>, <<HW, HW, TL_M>>}
WaveConstraints ==
    SeqsUpTo({HW, HW_unset, TL_K}, MaxConstraints)
        \cup TiledConstraints \cup AliasedConstraints
(* options.optimization_level is only tested for being zero (lines 609,   *)
(* 648)                                                                    *)
OptimizationLevels == {0, 1}
(* idxc.subs when the kernel is compiled: nothing bound; the dimension K   *)
(* bound; K and the tile sizes bound                                       *)
CompileSubs ==
    {EmptyMap,
     [d \in {"K"} |-> 4],
     [d \in {"K", "BLOCK_K", "BLOCK_M"} |-> IF d = "K" THEN 8 ELSE 4]}

InitCompile ==
    /\ IdleCleanup
    /\ constraints = <<>>
    /\ node = Node(TRUE, EmptyMap, FALSE, EmptyMap, <<>>, <<>>)
    /\ scaling = Pending
    /\ subs \in CompileSubs
    /\ objects = <<>>
    /\ call = NoCall
    /\ expansion_context = <<>>
    /\ graph_passes = <<>>
    /\ pass_times = <<>>
    /\ launchable \in {LaunchableWave(cs) : cs \in WaveConstraints}
    /\ trace \in Traces

(* self.initialize_wave_constraints(), called on the kernel before it is   *)
(* traced and compiled                                                     *)
InitializeWaveConstraints ==
    /\ call = NoCall
    /\ LET r == initialize_wave_constraints(launchable)
       IN  /\ launchable' = r.self
           /\ call' = [op |-> "initialize_wave_constraints", status |-> r.status]
    /\ UNCHANGED <<scalingVars, objects, cleanupVars, expansion_context,
                   graph_passes, pass_times, trace>>

(* self.initialize_symbolic_constraints(), called on the kernel before it  *)
(* is traced and compiled, after initialize_wave_constraints if that is    *)
(* called                                                                  *)
InitializeSymbolicConstraints ==
    /\ \/ call = NoCall
       \/ call.op = "initialize_wave_constraints" /\ call.status = "ok"
    /\ LET r == initialize_symbolic_constraints(launchable, subs)
       IN  /\ launchable' = r.self
           /\ subs' = r.subs
           /\ call' = [op |-> "initialize_symbolic_constraints", status |-> r.status]
    /\ UNCHANGED <<constraints, node, scaling, objects, cleanupVars, expansion_context,
                   graph_passes, pass_times, trace>>

(* line 599: graph_passes = self.build_initial_pass_pipeline(...) *)
BuildInitialPassPipeline ==
    /\ \/ call = NoCall
       \/ /\ call.op \in {"initialize_wave_constraints", "initialize_symbolic_constraints"}
          /\ call.status = "ok"
    /\ \E level \in OptimizationLevels :
          /\ graph_passes' = build_initial_pass_pipeline(Options(level))
          /\ call' = [op |-> "build_initial_pass_pipeline", options |-> Options(level)]
    /\ UNCHANGED <<scalingVars, objects, cleanupVars, expansion_context,
                   pass_times, launchable, trace>>

(* lines 603-667: graph_passes += [...] *)
ExtendPassPipeline ==
    /\ call.op = "build_initial_pass_pipeline"
    /\ graph_passes' = graph_passes \o later_passes(call.options)
    /\ call' = [op |-> "_trace_and_get_kernel_signature", options |-> call.options,
                status |-> "ok"]
    /\ UNCHANGED <<scalingVars, objects, cleanupVars, expansion_context,
                   pass_times, launchable, trace>>

(* one iteration of the loop of lines 669-670; a pass that raises leaves   *)
(* the loop, and no later pass is applied                                  *)
ApplyPass ==
    /\ call.op \in {"_trace_and_get_kernel_signature", "try_apply_pass"}
    /\ call.status = "ok"
    /\ Len(pass_times) < Len(graph_passes)
    /\ \E raises \in BOOLEAN :
          LET p == graph_passes[Len(pass_times) + 1]
              r == try_apply_pass(p, launchable, trace, subs, raises)
          IN  /\ launchable' = r.self
              /\ trace' = r.trace
              /\ pass_times' = IF r.status = "ok" THEN Append(pass_times, p) ELSE pass_times
              /\ call' = [op |-> "try_apply_pass", options |-> call.options,
                          status |-> r.status]
    /\ UNCHANGED <<scalingVars, objects, cleanupVars, expansion_context, graph_passes>>

NextCompile ==
    \/ InitializeWaveConstraints
    \/ InitializeSymbolicConstraints
    \/ BuildInitialPassPipeline
    \/ ExtendPassPipeline
    \/ ApplyPass

SpecCompile == InitCompile /\ [][NextCompile]_vars

(***************************************************************************)
(* Properties of the pass pipeline.                                        *)
(***************************************************************************)
Positions(passes, p) == {i \in DOMAIN passes : passes[i] = p}
BeforeExpansion ==
    {"create_induction_vars", "finalize_indices", "substitute_vector_shapes",
     "set_node_indices"}
AfterExpansion == {"set_post_expansion_indices", "remove_chained_getresult"}
Applied(p) == Positions(pass_times, p) # {}
(* the Tiling constraints on the axis of a reduction of the trace *)
Tiled ==
    {i \in DOMAIN launchable.constraints :
        /\ launchable.constraints[i].kind = "Tiling"
        /\ \E n \in DOMAIN trace :
              trace[n].class = "Iterate" /\ trace[n].axis = launchable.constraints[i].dim}

(* the Iterate nodes of the trace whose axis has a Tiling constraint *)
Reductions ==
    {n \in DOMAIN trace :
        /\ trace[n].class = "Iterate"
        /\ \E i \in DOMAIN launchable.constraints :
              /\ launchable.constraints[i].kind = "Tiling"
              /\ launchable.constraints[i].dim = trace[n].axis}

(* C23: in the pipeline build_initial_pass_pipeline returns, and in the     *)
(* pipeline extended by the later passes, expand_graph occurs exactly      *)
(* once, create_induction_vars, finalize_indices, substitute_vector_shapes *)
(* and set_node_indices each occur and only before it,                     *)
(* set_post_expansion_indices and remove_chained_getresult each occur and  *)
(* only after it.  The passes are applied in the order of the pipeline     *)
(* and a pass that raises ends the loop, so the applied passes are a       *)
(* prefix of the pipeline, a proper one after a failure.  So when          *)
(* expand_graph has been applied the four have been applied, the           *)
(* constraints hold a Hardware constraint (substitute_vector_shapes raises *)
(* IndexError without one), every Tiling constraint on a reduction axis    *)
(* has its induction variable, and every reduction on a tiled axis has the *)
(* count of a Tiling constraint on its axis, a number when idxc.subs       *)
(* gives the dimension and the tile size a value; and the two later passes *)
(* are applied only after expand_graph.                                    *)
C23_PipelineOrder ==
    /\ graph_passes # <<>> =>
          /\ Cardinality(Positions(graph_passes, "expand_graph")) = 1
          /\ \A e \in Positions(graph_passes, "expand_graph") :
                /\ \A p \in BeforeExpansion :
                      /\ Positions(graph_passes, p) # {}
                      /\ \A i \in Positions(graph_passes, p) : i < e
                /\ \A p \in AfterExpansion :
                      /\ Positions(graph_passes, p) # {}
                      /\ \A i \in Positions(graph_passes, p) : i > e
    /\ call.op = "build_initial_pass_pipeline" =>
          graph_passes = build_initial_pass_pipeline(call.options)
    /\ Len(pass_times) <= Len(graph_passes)
    /\ \A i \in DOMAIN pass_times : pass_times[i] = graph_passes[i]
    /\ (call.op = "try_apply_pass" /\ call.status # "ok") =>
          Len(pass_times) < Len(graph_passes)
    /\ hardware_constraints(launchable.constraints) = <<>> =>
          ~Applied("substitute_vector_shapes")
    /\ Applied("expand_graph") =>
          /\ \A p \in BeforeExpansion : Applied(p)
          /\ hardware_constraints(launchable.constraints) # <<>>
          /\ \A i \in Tiled :
                launchable.induction_var[i]
                    = <<induction_symbol(launchable.constraints[i].dim)>>
          /\ \A n \in Reductions :
                /\ trace[n].count # <<>>
                /\ trace[n].count[1].dim = trace[n].axis
                /\ \E i \in Tiled :
                      trace[n].count = <<count(launchable.constraints[i], subs)>>
                /\ (subs_idxc(trace[n].axis, subs) # <<>>
                        /\ subs_idxc(trace[n].count[1].tile_size, subs) # <<>>)
                      => trace[n].count[1].value # <<>>
    /\ \A p \in AfterExpansion : Applied(p) => Applied("expand_graph")

(* expand_graph has just been applied to a kernel with a Hardware          *)
(* constraint and a reduction over K tiled by a Tiling constraint          *)
C23_Witness ==
    /\ call.op = "try_apply_pass"
    /\ call.status = "ok"
    /\ hardware_constraints(launchable.constraints) # <<>>
    /\ pass_times # <<>>
    /\ pass_times[Len(pass_times)] = "expand_graph"
    /\ \E i \in Tiled : launchable.constraints[i].dim = "K"
    /\ \E n \in Reductions : trace[n].axis = "K" /\ trace[n].count[1].value = <<2>>
    /\ \A p \in BeforeExpansion : Applied(p)
    /\ \A p \in AfterExpansion : ~Applied(p)

(***************************************************************************)
(* The expansion memo.  get_indexed_dims and filter_non_cloned_nodes are   *)
(* in expansion_utils.py; the memoized resolution that uses them is        *)
(* modelled from its specification: the clone of node n at coordinate q is *)
(* looked up under the key (n, q restricted to the dimensions n indexes),  *)
(* and is built, wired to the clones of its operands and memoized when the *)
(* key is new.  Clones are appended to the graph; a node is named by its   *)
(* position.  An element of indexing_dims is a symbol or, for a node with  *)
(* several values, a sequence of symbols.                                  *)
(***************************************************************************)
DimSymbol(d) == [symbol |-> d, group |-> <<>>]
DimGroup(ds) == [symbol |-> "", group |-> ds]
(* isinstance(el, Sequence) *)
IsSequence(el) == el.symbol = ""

(* an original node; origin and dim_query are set on clones *)
ExpandNode(class, args, dims) ==
    [class |-> class, args |-> args, indexing_dims |-> dims,
     origin |-> 0, dim_query |-> <<>>]

(* list(dict.fromkeys(flattened_dims)): the first occurrences, in order *)
RECURSIVE fromkeys(_)
fromkeys(s) ==
    IF s = <<>> THEN <<>>
    ELSE LET init == fromkeys(Front(s))
         IN  IF \E i \in DOMAIN init : init[i] = Last(s) THEN init
             ELSE Append(init, Last(s))

(* lines 164-167: the dimensions of nodeOrDims, flattened when all its     *)
(* elements are sequences                                                  *)
flatten_dims(nodeOrDims) ==
    IF \A i \in DOMAIN nodeOrDims : IsSequence(nodeOrDims[i])
    THEN fromkeys(Concat([i \in DOMAIN nodeOrDims |-> nodeOrDims[i].group]))
    ELSE [i \in DOMAIN nodeOrDims |-> nodeOrDims[i].symbol]

(* all_dims[key] *)
lookup(all_dims, key) ==
    all_dims[CHOOSE i \in DOMAIN all_dims : all_dims[i][1] = key][2]

(* every entry of all_dims, whatever the node indexes *)
get_indexed_dims_unrestricted(all_dims, nodeOrDims) == all_dims

(* get_indexed_dims(all_dims, nodeOrDims), lines 161-168 *)
get_indexed_dims(all_dims, nodeOrDims) ==
    LET dims == flatten_dims(nodeOrDims)
        present == SelectSeq(dims, LAMBDA key : \E i \in DOMAIN all_dims : all_dims[i][1] = key)
    IN  [i \in DOMAIN present |-> <<present[i], lookup(all_dims, present[i])>>]

(* expansion_context.values() *)
cloned(ec) == {ec[k] : k \in DOMAIN ec}

(* the module global expansion_context of expansion_utils.py: no statement *)
(* of the module binds the name, so it is unbound unless a caller has      *)
(* assigned a dict to it                                                   *)
Unbound == <<>>
Bound(ec) == <<ec>>

(* filter_non_cloned_nodes(nodes), lines 213-214: the test of the          *)
(* comprehension reads the module global for each node, so an empty list   *)
(* is returned as it is and a node raises NameError when the global is     *)
(* unbound                                                                 *)
filter_non_cloned_nodes(nodes, global) ==
    IF nodes = <<>> THEN [status |-> "ok", result |-> <<>>]
    ELSE IF global = Unbound THEN [status |-> "NameError", result |-> <<>>]
    ELSE [status |-> "ok",
          result |-> SelectSeq(nodes, LAMBDA n : n \notin cloned(global[1]))]

(* the memoized rule: the clone of node n at coordinate q *)
RECURSIVE get_clone(_, _, _, _)
RECURSIVE resolve_operands(_, _, _, _, _, _)
(* the operands of n from the j-th on, resolved at q; acc holds the        *)
(* operands resolved so far                                                *)
resolve_operands(g, ec, n, q, j, acc) ==
    IF j > Len(g[n].args) THEN [graph |-> g, expansion_context |-> ec, args |-> acc]
    ELSE LET o == g[n].args[j]
         IN  IF ~is_expandable_op(g[o])
             THEN resolve_operands(g, ec, n, q, j + 1, Append(acc, o))
             ELSE LET r == get_clone(g, ec, o, q)
                  IN  resolve_operands(r.graph, r.expansion_context, n, q, j + 1,
                                       Append(acc, r.clone))

get_clone(g, ec, n, q) ==
    LET key == <<n, get_indexed_dims(q, g[n].indexing_dims)>>
    IN  IF key \in DOMAIN ec
        THEN [graph |-> g, expansion_context |-> ec, clone |-> ec[key]]
        ELSE LET r == resolve_operands(g, ec, n, key[2], 1, <<>>)
                 clone == Len(r.graph) + 1
                 new == [g[n] EXCEPT !.args = r.args, !.origin = n, !.dim_query = key[2]]
             IN  [graph |-> Append(r.graph, new),
                  expansion_context |-> Put(r.expansion_context, key, clone),
                  clone |-> clone]

(***************************************************************************)
(* Expansion passes: graphs of three nodes in which every operand comes    *)
(* before its consumers, and the coordinates of a 2 x 2 expansion.         *)
(***************************************************************************)
MaxRequests == 2

Symbols(ds) == [i \in DOMAIN ds |-> DimSymbol(ds[i])]
OperandDims == {Symbols(<<"M">>), Symbols(<<"N", "M">>)}
ConsumerDims == {Symbols(<<"M", "N">>), <<DimGroup(<<"M">>), DimGroup(<<"N", "M">>)>>}
ExpandGraphs ==
    {<<ExpandNode(c, <<>>, d1), ExpandNode("Read", a2, d2), ExpandNode("MMA", a3, d3)>> :
        c \in {"Read", "Placeholder"}, d1 \in OperandDims,
        a2 \in {<<1>>}, d2 \in ConsumerDims,
        a3 \in {<<1>>, <<2>>, <<1, 2>>}, d3 \in {Symbols(<<"M", "N">>)}}
ExpandQueries ==
    {<< <<"M", a>>, <<"N", b>> >> : a \in 0..1, b \in 0..1}
    \cup {<< <<"N", 1>>, <<"M", 0>> >>, << <<"M", 1>> >>}

Originals == {n \in DOMAIN graph : graph[n].origin = 0}

InitExpand ==
    /\ IdleScaling
    /\ objects = <<>>
    /\ call = [op |-> "expand_graph", requests |-> 0]
    /\ graph \in ExpandGraphs
    /\ leaf_nodes = <<>>
    /\ queue = <<>>
    /\ pc = "expand_graph"
    /\ expansion_context = <<>>
    /\ graph_passes = <<>>
    /\ pass_times = <<>>
    /\ launchable = LaunchableWave(<<>>)
    /\ trace = <<>>

(* a consumer, or the pass itself, asks for the clone of node n at q *)
GetClone ==
    /\ pc = "expand_graph"
    /\ call.requests < MaxRequests
    /\ \E n \in Originals, q \in ExpandQueries :
          LET r == get_clone(graph, expansion_context, n, q)
          IN  /\ graph' = r.graph
              /\ expansion_context' = r.expansion_context
              /\ call' = [op |-> "get_clone", requests |-> call.requests + 1,
                          node |-> n, dim_query |-> q, result |-> <<r.clone>>]
    /\ UNCHANGED <<scalingVars, objects, leaf_nodes, queue, pc, compileVars>>

(* filter_non_cloned_nodes(nodes) on no node or on the nodes of the graph, *)
(* the module global being unbound, as the module leaves it, or bound to   *)
(* the memo by the caller; leaf_nodes is the list the call returns         *)
FilterNonClonedNodes ==
    /\ pc = "expand_graph"
    /\ call.op = "get_clone"
    /\ \E nodes \in {<<>>, [n \in DOMAIN graph |-> n]},
          global \in {Unbound, Bound(expansion_context)} :
          LET r == filter_non_cloned_nodes(nodes, global)
          IN  /\ leaf_nodes' = IF r.status = "ok" THEN r.result ELSE leaf_nodes
              /\ pc' = IF r.status = "ok" THEN "remove_original_nodes" ELSE "raised"
              /\ call' = [op |-> "filter_non_cloned_nodes", requests |-> call.requests,
                          nodes |-> nodes, global |-> global, status |-> r.status]
    /\ UNCHANGED <<scalingVars, objects, graph, queue, expansion_context, compileVars>>

NextExpand == GetClone \/ FilterNonClonedNodes

SpecExpand == InitExpand /\ [][NextExpand]_vars

(***************************************************************************)
(* Properties of the expansion memo.                                       *)
(***************************************************************************)
(* the dimensions node n indexes *)
IndexedBy(n) ==
    UNION {IF IsSequence(graph[n].indexing_dims[i])
           THEN {graph[n].indexing_dims[i].group[j] :
                    j \in DOMAIN graph[n].indexing_dims[i].group}
           ELSE {graph[n].indexing_dims[i].symbol} : i \in DOMAIN graph[n].indexing_dims}
(* coordinate q restricted to the dimensions node n indexes *)
Restricted(q, n) == {q[i] : i \in {j \in DOMAIN q : q[j][1] \in IndexedBy(n)}}
Clones == DOMAIN graph \ Originals
(* the clones of node n at the coordinate q *)
ClonesOf(n, q) ==
    {c \in Clones : graph[c].origin = n
                    /\ Restricted(graph[c].dim_query, n) = Restricted(q, n)}

(* C21: during one expansion pass there is at most one clone of a node at  *)
(* a coordinate, every clone is the memo's value for its node and          *)
(* coordinate and for no other key, and an operand of a clone that is      *)
(* eligible is the one clone of the original operand at the coordinate, so *)
(* consumers that expand to the same coordinate share it; a request never  *)
(* changes a memo entry, it returns the one clone of the node at the       *)
(* coordinate, and when there was one already it is returned and nothing   *)
(* is created; filter_non_cloned_nodes, when it returns, keeps the         *)
(* originals of the nodes it is given, and it raises NameError exactly     *)
(* when it is given a node while the module global is unbound.             *)
C21_Memoization ==
    /\ [](call.op = "filter_non_cloned_nodes" =>
            /\ call.status = "ok" =>
                  leaf_nodes = SelectSeq(call.nodes, LAMBDA n : graph[n].origin = 0)
            /\ call.status # "ok" <=> (call.nodes # <<>> /\ call.global = Unbound)
            /\ call.status # "ok" => (call.status = "NameError" /\ pc = "raised"))
    /\ [](pc = "expand_graph" =>
            /\ \A n \in Originals, q \in ExpandQueries : Cardinality(ClonesOf(n, q)) <= 1
            /\ cloned(expansion_context) = Clones
            /\ \A k1, k2 \in DOMAIN expansion_context :
                  expansion_context[k1] = expansion_context[k2] => k1 = k2
            /\ \A k \in DOMAIN expansion_context :
                  expansion_context[k] \in ClonesOf(k[1], k[2])
            /\ \A c \in Clones :
                  LET n == graph[c].origin
                  IN  /\ Len(graph[c].args) = Len(graph[n].args)
                      /\ \A j \in DOMAIN graph[n].args :
                            LET o == graph[n].args[j]
                            IN  IF is_expandable_op(graph[o])
                                THEN graph[c].args[j] \in ClonesOf(o, graph[c].dim_query)
                                ELSE graph[c].args[j] = o)
    /\ [][pc = "expand_graph" /\ pc' = "expand_graph" =>
            /\ \A k \in DOMAIN expansion_context :
                  /\ k \in DOMAIN expansion_context'
                  /\ expansion_context'[k] = expansion_context[k]
            /\ \A c \in DOMAIN graph : c \in DOMAIN graph' /\ graph'[c] = graph[c]
            /\ call'.result[1] \in DOMAIN graph'
            /\ graph'[call'.result[1]].origin = call'.node
            /\ Restricted(graph'[call'.result[1]].dim_query, call'.node)
                  = Restricted(call'.dim_query, call'.node)
            /\ ClonesOf(call'.node, call'.dim_query) # {} =>
                  /\ call'.result[1] \in ClonesOf(call'.node, call'.dim_query)
                  /\ graph' = graph
                  /\ expansion_context' = expansion_context]_vars

(* two consumers that index M and N have been cloned at (M=0, N=0) and     *)
(* (M=0, N=1) and share the one clone of their operand, which indexes M    *)
(* alone, at M=0                                                           *)
C21_Witness ==
    /\ pc = "expand_graph"
    /\ call.op = "get_clone"
    /\ graph[3].args = <<1, 2>> /\ graph[2].args = <<1>>
    /\ IndexedBy(1) = {"M"}
    /\ is_expandable_op(graph[1])
    /\ Cardinality({c \in Clones : graph[c].origin = 1}) = 1
    /\ Cardinality({c \in Clones : graph[c].origin = 2}) = 2
    /\ Cardinality({c \in Clones : graph[c].origin = 3}) = 2
    /\ \A c \in Clones : graph[c].origin # 1 =>
          graph[c].args[1] \in ClonesOf(1, << <<"M", 0>> >>)

====
